---- MODULE Spec2Model ----
(***************************************************************************)
(* A model of the DPLL SAT solver of this repository (src/src/solver.c,    *)
(* src/src/structures.c, src/src/main.c).                                  *)
(*                                                                         *)
(* The state is the solver object: the formula it borrows (clauses and     *)
(* the assignment vector), the assignment stack with its global decision   *)
(* level, the counters, the configuration, and the position of the driver  *)
(* (dpll_algorithm) inside one iteration of its outer loop.                *)
(***************************************************************************)
EXTENDS Integers, Sequences, FiniteSets, TLC

VARIABLES
    formula,                  \* cnf_formula_t: [num_variables, clauses]
    variable_used,            \* formula->variable_used[1..num_variables]
    parser,                   \* cnf_parser_t and the line it is working on
    config,                   \* solver_config_t
    assignment,               \* formula->assignment[1..num_variables]
    stack,                    \* assignments->stack[0..size-1]
    decision_level,           \* assignments->decision_level
    stats,                    \* solver_stats_t counters
    conflicts_since_restart,  \* solver->conflicts_since_restart
    iterations,               \* local `iterations` of dpll_algorithm
    progress_made,            \* local `progress_made` of dpll_algorithm
    pc,                       \* position of the driver
    result,                   \* value returned by solver_solve ("NONE" while running)
    ret_site,                 \* the return statement that produced `result`
    output                    \* the lines written to a stream, and main's exit code

vars == <<formula, variable_used, parser, config, assignment, stack, decision_level,
          stats, conflicts_since_restart, iterations, progress_made, pc, result,
          ret_site, output>>

(***************************************************************************)
(* Program constants.                                                      *)
(***************************************************************************)
VAR_UNASSIGNED == 0
VAR_TRUE == 1
VAR_FALSE == -1

max_iterations == 1000
DEFAULT_MAX_DECISIONS == 1000
DEFAULT_RESTART_THRESHOLD == 1000

DECISION_FIRST_UNASSIGNED == 0
DECISION_MOST_FREQUENT == 1
DECISION_JEROSLOW_WANG == 2
DECISION_RANDOM == 3

(***************************************************************************)
(* Bounds of the model.                                                    *)
(***************************************************************************)
FamilyVars == 2        \* variables of the enumerated formula family
MaxClauses == 1        \* clauses per formula of the enumerated family
SmallDecisionCap == 2  \* the non-default max_decisions that is tried
MaxTokens == 2         \* literals on a clause line given to the parser
MaxStack == 3          \* entries on a stack driven through its primitives

(***************************************************************************)
(* Literal primitives (structures.h).                                      *)
(***************************************************************************)
literal_variable(lit) == IF lit > 0 THEN lit ELSE -lit

literal_is_positive(lit) == lit > 0


(***************************************************************************)
(* Clause evaluation (structures.c).  A clause is a sequence of literals,  *)
(* an assignment a function from 1..N to {UNASSIGNED, TRUE, FALSE}.        *)
(***************************************************************************)
literal_satisfied(lit, a) ==
    \/ literal_is_positive(lit) /\ a[literal_variable(lit)] = VAR_TRUE
    \/ ~literal_is_positive(lit) /\ a[literal_variable(lit)] = VAR_FALSE

clause_is_satisfied(clause, a) ==
    \E i \in 1..Len(clause) : literal_satisfied(clause[i], a)

\* The scan of clause_is_unit from literal i on: `last` is unassigned_literal,
\* `count` is unassigned_count.  The result is the unit literal, or 0 when the
\* function returns false.
RECURSIVE clause_unit_scan(_, _, _, _, _)
clause_unit_scan(clause, a, i, last, count) ==
    IF i > Len(clause)
    THEN IF count = 1 THEN last ELSE 0
    ELSE IF literal_satisfied(clause[i], a)
    THEN 0
    ELSE IF a[literal_variable(clause[i])] = VAR_UNASSIGNED
    THEN IF count + 1 > 1
         THEN 0
         ELSE clause_unit_scan(clause, a, i + 1, clause[i], count + 1)
    ELSE clause_unit_scan(clause, a, i + 1, last, count)

clause_is_unit(clause, a) == clause_unit_scan(clause, a, 1, 0, 0)

\* Variant: an unassigned literal counts as falsified.
clause_is_conflicting_ignoring_unassigned(clause, a) ==
    \A i \in 1..Len(clause) : ~literal_satisfied(clause[i], a)

clause_is_conflicting(clause, a) ==
    \A i \in 1..Len(clause) :
        /\ a[literal_variable(clause[i])] # VAR_UNASSIGNED
        /\ ~literal_satisfied(clause[i], a)

\* Variant: the polarity comparison is inverted (pi == pj).
clause_is_tautology_equal_polarity(clause) ==
    \E i \in 1..Len(clause) : \E j \in (i + 1)..Len(clause) :
        /\ literal_variable(clause[i]) = literal_variable(clause[j])
        /\ literal_is_positive(clause[i]) = literal_is_positive(clause[j])

clause_is_tautology(clause) ==
    \E i \in 1..Len(clause) : \E j \in (i + 1)..Len(clause) :
        /\ literal_variable(clause[i]) = literal_variable(clause[j])
        /\ literal_is_positive(clause[i]) # literal_is_positive(clause[j])

(***************************************************************************)
(* Formula evaluation.                                                     *)
(***************************************************************************)
cnf_is_satisfied(f, a) ==
    \A i \in 1..Len(f.clauses) : clause_is_satisfied(f.clauses[i], a)

has_conflict(f, a) ==
    \E i \in 1..Len(f.clauses) : clause_is_conflicting(f.clauses[i], a)

\* Variant: "no clause is violated" taken for "every clause is satisfied".
is_formula_satisfied_without_conflict(f, a) == ~has_conflict(f, a)

is_formula_satisfied(f, a) == cnf_is_satisfied(f, a)

IS_VARIABLE_ASSIGNED(a, var) == a[var] # VAR_UNASSIGNED

(***************************************************************************)
(* The assignment stack (structures.c).  The mutable part of the solver is *)
(* passed through the operations as a record s with the fields             *)
(*   assignment, stack, decision_level, propagations, conflicts,           *)
(*   conflicts_since_restart.                                              *)
(* Allocation failure (realloc returning NULL) is not modelled.            *)
(***************************************************************************)
assignment_stack_push(s, var, value, is_decision) ==
    LET level == IF is_decision THEN s.decision_level + 1 ELSE s.decision_level
    IN [s EXCEPT !.decision_level = level,
                 !.stack = Append(@, [variable |-> var, value |-> value,
                                      decision_level |-> level,
                                      is_decision |-> is_decision])]

\* Variant: the level is lowered whatever the popped entry is.
assignment_stack_pop_always_lowers(s) ==
    IF Len(s.stack) = 0
    THEN s
    ELSE [s EXCEPT !.stack = SubSeq(@, 1, Len(@) - 1),
                   !.decision_level = IF @ > 0 THEN @ - 1 ELSE @]

assignment_stack_pop(s) ==
    IF Len(s.stack) = 0
    THEN s
    ELSE LET top == s.stack[Len(s.stack)]
         IN [s EXCEPT !.stack = SubSeq(@, 1, Len(@) - 1),
                      !.decision_level =
                          IF top.is_decision /\ @ > 0 THEN @ - 1 ELSE @]

RECURSIVE stack_pop_above(_, _)
stack_pop_above(s, level) ==
    IF Len(s.stack) > 0 /\ s.stack[Len(s.stack)].decision_level > level
    THEN stack_pop_above(assignment_stack_pop(s), level)
    ELSE s

assignment_stack_backtrack_to_level(s, level) ==
    [stack_pop_above(s, level) EXCEPT !.decision_level = level]

(***************************************************************************)
(* assign_variable (solver.c).  The guard rejects var = 0 and var > N.     *)
(***************************************************************************)
assign_variable_ok(f, var) == ~(var = 0 \/ var > f.num_variables)

assign_variable(f, s, var, value, is_decision) ==
    IF ~assign_variable_ok(f, var)
    THEN s
    ELSE assignment_stack_push([s EXCEPT !.assignment[var] = value],
                               var, value, is_decision)

(***************************************************************************)
(* unit_propagation (solver.c).  unit_scan is one pass of the for loop     *)
(* from clause i on; it yields the state, whether something was propagated *)
(* in this pass, and whether the pass returned early (the `already         *)
(* assigned to the other value' branch).                                   *)
(***************************************************************************)
RECURSIVE unit_scan(_, _, _, _)
unit_scan(f, s, i, propagated) ==
    IF i > Len(f.clauses)
    THEN [s |-> s, propagated |-> propagated, returned |-> FALSE]
    ELSE LET clause == f.clauses[i]
             unit_literal == clause_is_unit(clause, s.assignment)
             var == literal_variable(unit_literal)
             value == IF literal_is_positive(unit_literal) THEN VAR_TRUE ELSE VAR_FALSE
         IN IF clause_is_satisfied(clause, s.assignment)
            THEN unit_scan(f, s, i + 1, propagated)
            ELSE IF unit_literal = 0
            THEN unit_scan(f, s, i + 1, propagated)
            ELSE IF IS_VARIABLE_ASSIGNED(s.assignment, var)
            THEN IF s.assignment[var] # value
                 THEN [s |-> [s EXCEPT !.conflicts_since_restart = @ + 1,
                                       !.conflicts = @ + 1],
                       propagated |-> propagated, returned |-> TRUE]
                 ELSE unit_scan(f, s, i + 1, propagated)
            ELSE unit_scan(f,
                           [assign_variable(f, s, var, value, FALSE)
                               EXCEPT !.propagations = @ + 1],
                           i + 1, TRUE)

\* Variant: one pass over the clauses, not repeated after a propagation.
unit_propagation_single_pass(f, s) == unit_scan(f, s, 1, FALSE).s

RECURSIVE unit_propagation(_, _)
unit_propagation(f, s) ==
    LET pass == unit_scan(f, s, 1, FALSE)
    IN IF pass.returned THEN pass.s
       ELSE IF pass.propagated THEN unit_propagation(f, pass.s)
       ELSE pass.s

(***************************************************************************)
(* pure_literal_elimination (solver.c): one pass over the variables in     *)
(* increasing order, each examined under the assignment as left by the     *)
(* variables before it.                                                    *)
(***************************************************************************)
\* Variant: satisfied clauses are looked at too.
appears_with_in_any_clause(f, a, var, positive) ==
    \E i \in 1..Len(f.clauses) :
        \E j \in 1..Len(f.clauses[i]) :
            /\ literal_variable(f.clauses[i][j]) = var
            /\ literal_is_positive(f.clauses[i][j]) = positive

\* Variant: the polarity test is inverted.
appears_with_inverted(f, a, var, positive) ==
    \E i \in 1..Len(f.clauses) :
        /\ ~clause_is_satisfied(f.clauses[i], a)
        /\ \E j \in 1..Len(f.clauses[i]) :
              /\ literal_variable(f.clauses[i][j]) = var
              /\ literal_is_positive(f.clauses[i][j]) # positive

appears_with(f, a, var, positive) ==
    \E i \in 1..Len(f.clauses) :
        /\ ~clause_is_satisfied(f.clauses[i], a)
        /\ \E j \in 1..Len(f.clauses[i]) :
              /\ literal_variable(f.clauses[i][j]) = var
              /\ literal_is_positive(f.clauses[i][j]) = positive

RECURSIVE pure_scan(_, _, _, _)
pure_scan(f, s, var, changed) ==
    IF var > f.num_variables
    THEN [s |-> s, changed |-> changed]
    ELSE IF IS_VARIABLE_ASSIGNED(s.assignment, var)
    THEN pure_scan(f, s, var + 1, changed)
    ELSE LET appears_positive == appears_with(f, s.assignment, var, TRUE)
             appears_negative == appears_with(f, s.assignment, var, FALSE)
         IN IF appears_positive /\ ~appears_negative
            THEN pure_scan(f, assign_variable(f, s, var, VAR_TRUE, FALSE), var + 1, TRUE)
            ELSE IF appears_negative /\ ~appears_positive
            THEN pure_scan(f, assign_variable(f, s, var, VAR_FALSE, FALSE), var + 1, TRUE)
            ELSE pure_scan(f, s, var + 1, changed)

\* Variant: the assignments are made but never reported to the caller.
pure_literal_elimination_unreported(f, s) ==
    [pure_scan(f, s, 1, FALSE) EXCEPT !.changed = FALSE]

pure_literal_elimination(f, s) == pure_scan(f, s, 1, FALSE)

(***************************************************************************)
(* Branching heuristics (solver.c).  Each scan follows the for loop over   *)
(* var = 1..N with the running best (best_var, max).                       *)
(***************************************************************************)
\* Variant: FALSE is tried first.
choose_decision_value_false_first(var) == IF var = 0 THEN VAR_UNASSIGNED ELSE VAR_FALSE

choose_decision_value(var) == IF var = 0 THEN VAR_UNASSIGNED ELSE VAR_TRUE

\* A first-unassigned scan that gives up at the first assigned variable.
first_unassigned_scan_stops(f, a, var) ==
    IF var > f.num_variables THEN 0
    ELSE IF ~IS_VARIABLE_ASSIGNED(a, var) THEN var
    ELSE 0

RECURSIVE first_unassigned_scan(_, _, _)
first_unassigned_scan(f, a, var) ==
    IF var > f.num_variables THEN 0
    ELSE IF ~IS_VARIABLE_ASSIGNED(a, var) THEN var
    ELSE first_unassigned_scan(f, a, var + 1)

decision_first_unassigned(f, a) == first_unassigned_scan(f, a, 1)

calculate_literal_frequency(f, a, literal) ==
    Cardinality({i \in 1..Len(f.clauses) :
                    /\ ~clause_is_satisfied(f.clauses[i], a)
                    /\ \E j \in 1..Len(f.clauses[i]) : f.clauses[i][j] = literal})

RECURSIVE most_frequent_scan(_, _, _, _, _)
most_frequent_scan(f, a, var, best_var, max_frequency) ==
    IF var > f.num_variables THEN best_var
    ELSE IF IS_VARIABLE_ASSIGNED(a, var)
    THEN most_frequent_scan(f, a, var + 1, best_var, max_frequency)
    ELSE LET total_freq == calculate_literal_frequency(f, a, var)
                           + calculate_literal_frequency(f, a, -var)
         IN IF total_freq > max_frequency
            THEN most_frequent_scan(f, a, var + 1, var, total_freq)
            ELSE most_frequent_scan(f, a, var + 1, best_var, max_frequency)

decision_most_frequent(f, a) == most_frequent_scan(f, a, 1, 0, 0)

\* The Jeroslow-Wang score is the sum of 2^(-|C|) over the live clauses that
\* contain the variable.  The sum is kept exact by scaling every term by
\* 2^W, W the longest clause of the formula: a term is 2^(W - |C|), and the
\* initial max_score of -1.0 is -(2^W).
RECURSIVE Pow2(_)
Pow2(n) == IF n = 0 THEN 1 ELSE 2 * Pow2(n - 1)

LongestClause(f) ==
    IF Len(f.clauses) = 0 THEN 0
    ELSE CHOOSE n \in {Len(f.clauses[i]) : i \in 1..Len(f.clauses)} :
            \A i \in 1..Len(f.clauses) : Len(f.clauses[i]) <= n

RECURSIVE jeroslow_wang_sum(_, _, _, _)
jeroslow_wang_sum(f, a, var, i) ==
    IF i > Len(f.clauses) THEN 0
    ELSE LET clause == f.clauses[i]
             contains_var == \E j \in 1..Len(clause) : literal_variable(clause[j]) = var
         IN IF clause_is_satisfied(clause, a) \/ ~contains_var
            THEN jeroslow_wang_sum(f, a, var, i + 1)
            ELSE Pow2(LongestClause(f) - Len(clause))
                 + jeroslow_wang_sum(f, a, var, i + 1)

calculate_jeroslow_wang_score(f, a, var) == jeroslow_wang_sum(f, a, var, 1)

RECURSIVE jeroslow_wang_scan(_, _, _, _, _)
jeroslow_wang_scan(f, a, var, best_var, max_score) ==
    IF var > f.num_variables THEN best_var
    ELSE IF IS_VARIABLE_ASSIGNED(a, var)
    THEN jeroslow_wang_scan(f, a, var + 1, best_var, max_score)
    ELSE LET score == calculate_jeroslow_wang_score(f, a, var)
         IN IF score > max_score
            THEN jeroslow_wang_scan(f, a, var + 1, var, score)
            ELSE jeroslow_wang_scan(f, a, var + 1, best_var, max_score)

decision_jeroslow_wang(f, a) ==
    jeroslow_wang_scan(f, a, 1, 0, -Pow2(LongestClause(f)))

\* decision_random draws an index with random_int, a linear congruential
\* generator seeded from the wall clock: every unassigned variable is a
\* possible outcome.
decision_random(f, a) ==
    LET unassigned_vars == {var \in 1..f.num_variables : ~IS_VARIABLE_ASSIGNED(a, var)}
    IN IF unassigned_vars = {} THEN {0} ELSE unassigned_vars

\* The set of variables choose_decision_variable may return.
choose_decision_variable(f, a, strategy) ==
    CASE strategy = DECISION_FIRST_UNASSIGNED -> {decision_first_unassigned(f, a)}
      [] strategy = DECISION_MOST_FREQUENT -> {decision_most_frequent(f, a)}
      [] strategy = DECISION_JEROSLOW_WANG -> {decision_jeroslow_wang(f, a)}
      [] strategy = DECISION_RANDOM -> decision_random(f, a)
      [] OTHER -> {decision_first_unassigned(f, a)}

(***************************************************************************)
(* backtrack (solver.c).  The entries above the most recent decision and   *)
(* the decision itself are removed by lowering `size' (not by              *)
(* assignment_stack_pop), their variables are cleared, and the decision    *)
(* is pushed again with the opposite value through assign_variable.        *)
(***************************************************************************)
last_decision_idx(stk) ==
    IF \E i \in 1..Len(stk) : stk[i].is_decision
    THEN CHOOSE i \in 1..Len(stk) :
            /\ stk[i].is_decision
            /\ \A j \in (i + 1)..Len(stk) : ~stk[j].is_decision
    ELSE 0

\* Variant: a decision whose value is FALSE is taken for exhausted and
\* backtrack fails without looking at earlier decisions.
backtrack_gives_up(f, s) ==
    LET idx == last_decision_idx(s.stack)
    IN IF Len(s.stack) = 0 \/ idx = 0 \/ s.stack[idx].value = VAR_FALSE
       THEN [ok |-> FALSE, s |-> s]
       ELSE LET decision_entry == s.stack[idx]
                popped == {s.stack[i].variable : i \in idx..Len(s.stack)}
                cleared == [s EXCEPT
                    !.assignment = [v \in DOMAIN @ |->
                                       IF v \in popped THEN VAR_UNASSIGNED ELSE @[v]],
                    !.stack = SubSeq(@, 1, idx - 1)]
            IN [ok |-> assign_variable_ok(f, decision_entry.variable),
                s |-> assign_variable(f, cleared, decision_entry.variable,
                                      VAR_FALSE, TRUE)]

\* Variant: the flipped decision is pushed on the stack without writing the
\* assignment vector.
backtrack_push_only(f, s) ==
    LET idx == last_decision_idx(s.stack)
    IN IF Len(s.stack) = 0 \/ idx = 0
       THEN [ok |-> FALSE, s |-> s]
       ELSE LET decision_entry == s.stack[idx]
                popped == {s.stack[i].variable : i \in idx..Len(s.stack)}
                cleared == [s EXCEPT
                    !.assignment = [v \in DOMAIN @ |->
                                       IF v \in popped THEN VAR_UNASSIGNED ELSE @[v]],
                    !.stack = SubSeq(@, 1, idx - 1)]
                opposite_value == IF decision_entry.value = VAR_TRUE
                                  THEN VAR_FALSE ELSE VAR_TRUE
            IN [ok |-> assign_variable_ok(f, decision_entry.variable),
                s |-> assignment_stack_push(cleared, decision_entry.variable,
                                            opposite_value, TRUE)]

\* Variant: only the decision variable is cleared; the variables of the
\* entries above it keep their values.
backtrack_keeps_propagated(f, s) ==
    LET idx == last_decision_idx(s.stack)
    IN IF Len(s.stack) = 0 \/ idx = 0
       THEN [ok |-> FALSE, s |-> s]
       ELSE LET decision_entry == s.stack[idx]
                cleared == [s EXCEPT
                    !.assignment[decision_entry.variable] = VAR_UNASSIGNED,
                    !.stack = SubSeq(@, 1, idx - 1)]
                opposite_value == IF decision_entry.value = VAR_TRUE
                                  THEN VAR_FALSE ELSE VAR_TRUE
            IN [ok |-> assign_variable_ok(f, decision_entry.variable),
                s |-> assign_variable(f, cleared, decision_entry.variable,
                                      opposite_value, TRUE)]

\* Variant: the decision is pushed again as a propagation (is_decision false).
backtrack_as_propagation(f, s) ==
    LET idx == last_decision_idx(s.stack)
    IN IF Len(s.stack) = 0 \/ idx = 0
       THEN [ok |-> FALSE, s |-> s]
       ELSE LET decision_entry == s.stack[idx]
                popped == {s.stack[i].variable : i \in idx..Len(s.stack)}
                cleared == [s EXCEPT
                    !.assignment = [v \in DOMAIN @ |->
                                       IF v \in popped THEN VAR_UNASSIGNED ELSE @[v]],
                    !.stack = SubSeq(@, 1, idx - 1)]
                opposite_value == IF decision_entry.value = VAR_TRUE
                                  THEN VAR_FALSE ELSE VAR_TRUE
            IN [ok |-> assign_variable_ok(f, decision_entry.variable),
                s |-> assign_variable(f, cleared, decision_entry.variable,
                                      opposite_value, FALSE)]

\* Variant: a failing backtrack unwinds the whole stack first.
backtrack_unwinds_on_failure(f, s) ==
    LET idx == last_decision_idx(s.stack)
    IN IF Len(s.stack) = 0 \/ idx = 0
       THEN [ok |-> FALSE,
             s |-> [s EXCEPT
                 !.assignment = [v \in DOMAIN @ |->
                                    IF \E i \in 1..Len(s.stack) : s.stack[i].variable = v
                                    THEN VAR_UNASSIGNED ELSE @[v]],
                 !.stack = <<>>]]
       ELSE LET decision_entry == s.stack[idx]
                popped == {s.stack[i].variable : i \in idx..Len(s.stack)}
                cleared == [s EXCEPT
                    !.assignment = [v \in DOMAIN @ |->
                                       IF v \in popped THEN VAR_UNASSIGNED ELSE @[v]],
                    !.stack = SubSeq(@, 1, idx - 1)]
                opposite_value == IF decision_entry.value = VAR_TRUE
                                  THEN VAR_FALSE ELSE VAR_TRUE
            IN [ok |-> assign_variable_ok(f, decision_entry.variable),
                s |-> assign_variable(f, cleared, decision_entry.variable,
                                      opposite_value, TRUE)]

\* Variant: every variable but the decision's is cleared.
backtrack_clears_all(f, s) ==
    LET idx == last_decision_idx(s.stack)
    IN IF Len(s.stack) = 0 \/ idx = 0
       THEN [ok |-> FALSE, s |-> s]
       ELSE LET decision_entry == s.stack[idx]
                cleared == [s EXCEPT
                    !.assignment = [v \in DOMAIN @ |-> VAR_UNASSIGNED],
                    !.stack = SubSeq(@, 1, idx - 1)]
                opposite_value == IF decision_entry.value = VAR_TRUE
                                  THEN VAR_FALSE ELSE VAR_TRUE
            IN [ok |-> assign_variable_ok(f, decision_entry.variable),
                s |-> assign_variable(f, cleared, decision_entry.variable,
                                      opposite_value, TRUE)]

backtrack(f, s) ==
    LET idx == last_decision_idx(s.stack)
    IN IF Len(s.stack) = 0 \/ idx = 0
       THEN [ok |-> FALSE, s |-> s]
       ELSE LET decision_entry == s.stack[idx]
                popped == {s.stack[i].variable : i \in idx..Len(s.stack)}
                cleared == [s EXCEPT
                    !.assignment = [v \in DOMAIN @ |->
                                       IF v \in popped THEN VAR_UNASSIGNED ELSE @[v]],
                    !.stack = SubSeq(@, 1, idx - 1)]
                opposite_value == IF decision_entry.value = VAR_TRUE
                                  THEN VAR_FALSE ELSE VAR_TRUE
            IN [ok |-> assign_variable_ok(f, decision_entry.variable),
                s |-> assign_variable(f, cleared, decision_entry.variable,
                                      opposite_value, TRUE)]

(***************************************************************************)
(* Restarts (solver.c).                                                    *)
(***************************************************************************)
\* Variant: the threshold is not read.
should_restart_ignoring_threshold(s, cfg) == s.conflicts_since_restart >= 0

should_restart(s, cfg) == s.conflicts_since_restart >= cfg.restart_threshold

RECURSIVE reapply(_, _, _)
reapply(a, stk, i) ==
    IF i > Len(stk) THEN a
    ELSE reapply([a EXCEPT ![stk[i].variable] = stk[i].value], stk, i + 1)

\* Variant: the remaining entries are not applied again.
unassign_until_level_without_reapply(f, s, level) ==
    LET popped == assignment_stack_backtrack_to_level(s, level)
        blank == [v \in 1..f.num_variables |-> VAR_UNASSIGNED]
    IN [popped EXCEPT !.assignment = blank]

unassign_until_level(f, s, level) ==
    LET popped == assignment_stack_backtrack_to_level(s, level)
        blank == [v \in 1..f.num_variables |-> VAR_UNASSIGNED]
    IN [popped EXCEPT !.assignment = reapply(blank, popped.stack, 1)]

perform_restart(f, s) == unassign_until_level(f, s, 0)

(***************************************************************************)
(* preprocess_formula (solver.c): pure literals, then unit propagation,    *)
(* repeated while a round changes something and leaves no conflict.        *)
(***************************************************************************)
\* Variant: the rounds eliminate pure literals only.
RECURSIVE preprocess_formula_without_units(_, _)
preprocess_formula_without_units(f, s) ==
    LET pure == pure_literal_elimination(f, s)
    IN IF has_conflict(f, pure.s.assignment) THEN pure.s
       ELSE IF pure.changed THEN preprocess_formula_without_units(f, pure.s)
       ELSE pure.s

RECURSIVE preprocess_formula(_, _)
preprocess_formula(f, s) ==
    LET before == Len(s.stack)
        pure == pure_literal_elimination(f, s)
        after == unit_propagation(f, pure.s)
        changed == pure.changed \/ Len(after.stack) # before
    IN IF has_conflict(f, after.assignment) THEN after
       ELSE IF changed THEN preprocess_formula(f, after)
       ELSE after

(***************************************************************************)
(* Inputs.  A clause over the variables 1..n is given by a sign per        *)
(* variable (0: absent); its literals are listed by increasing variable.   *)
(* The parser admits no duplicate literal, no tautology and no empty       *)
(* clause, so the family holds none.                                       *)
(***************************************************************************)
RECURSIVE ClauseOf(_, _, _)
ClauseOf(sign, v, n) ==
    IF v > n THEN <<>>
    ELSE IF sign[v] = 0 THEN ClauseOf(sign, v + 1, n)
    ELSE <<v * sign[v]>> \o ClauseOf(sign, v + 1, n)

ClausePool(n) ==
    {ClauseOf(sign, 1, n) : sign \in [1..n -> {-1, 0, 1}]} \ {<<>>}

FamilyFormulas ==
    {[num_variables |-> FamilyVars, clauses |-> cs] :
        cs \in UNION {[1..k -> ClausePool(FamilyVars)] : k \in 0..MaxClauses}}

\* The end-to-end scenarios, as the parser delivers their DIMACS files.
Scenario1 == [num_variables |-> 1, clauses |-> << <<1>> >>]
Scenario2 == [num_variables |-> 1, clauses |-> << <<1>>, <<-1>> >>]
Scenario3 == [num_variables |-> 3, clauses |-> << <<1, 2>>, <<-1, 3>>, <<-2, -3>> >>]
Scenario4 == [num_variables |-> 3,
              clauses |-> << <<1, 2>>, <<1, -2>>, <<-1, 2>>, <<-1, -2>> >>]
\* Pigeonhole, 3 pigeons and 2 holes: variable 2(p-1)+h is `pigeon p sits in hole h'.
Pigeonhole32 ==
    [num_variables |-> 6,
     clauses |-> << <<1, 2>>, <<3, 4>>, <<5, 6>>,
                    <<-1, -3>>, <<-1, -5>>, <<-3, -5>>,
                    <<-2, -4>>, <<-2, -6>>, <<-4, -6>> >>]

\* A satisfiable formula whose first branch (x1 = TRUE) fails for both values
\* of x2.
FlipTwice == [num_variables |-> 2, clauses |-> << <<-1, -2>>, <<-1, 2>> >>]

\* Solved under every library configuration.
LibraryFormulas == FamilyFormulas \cup {Scenario1, Scenario2, Scenario3, FlipTwice}

\* Solved under the configurations of the command line.
CliFormulas == {Scenario4, Pigeonhole32}

Strategies == {DECISION_FIRST_UNASSIGNED, DECISION_MOST_FREQUENT,
               DECISION_JEROSLOW_WANG, DECISION_RANDOM}

\* DEFAULT_SOLVER_CONFIG (solver.c) as main() completes it: the strategy and
\* max_decisions come from the command line.
CliConfig(strategy, max_decisions) ==
    [decision_strategy |-> strategy,
     enable_pure_literal |-> TRUE,
     enable_unit_propagation |-> TRUE,
     enable_preprocessing |-> TRUE,
     enable_restarts |-> FALSE,
     max_decisions |-> max_decisions,
     restart_threshold |-> DEFAULT_RESTART_THRESHOLD]

\* The configurations a caller of the library may pass.  The threshold is
\* read only when restarts are enabled; a threshold of 0 restarts after every
\* decision, and is paired with the small decision cap.
Configs ==
    {c \in [decision_strategy : Strategies,
            enable_pure_literal : BOOLEAN,
            enable_unit_propagation : BOOLEAN,
            enable_preprocessing : BOOLEAN,
            enable_restarts : BOOLEAN,
            max_decisions : {0, SmallDecisionCap},
            restart_threshold : {0, DEFAULT_RESTART_THRESHOLD}] :
        /\ ~c.enable_restarts => c.restart_threshold = DEFAULT_RESTART_THRESHOLD
        /\ c.restart_threshold = 0 => c.max_decisions = SmallDecisionCap}

\* The configurations the command line can produce.
CliConfigs ==
    {CliConfig(strategy, max_decisions) :
        strategy \in Strategies, max_decisions \in {0, SmallDecisionCap}}

\* variable_used as cnf_add_clause leaves it once the clauses of f are added.
variables_marked(f) ==
    [v \in 1..f.num_variables |->
        \E i \in 1..Len(f.clauses) : \E j \in 1..Len(f.clauses[i]) :
            literal_variable(f.clauses[i][j]) = v]

\* main() hands the formula over and destroys the parser before solving.
parser_destroyed == [status |-> "destroyed"]

\* Nothing has been written to a stream and the process has not exited.
nothing_written == [lines |-> <<>>, exit_code |-> -1]

(***************************************************************************)
(* The solver record the operations work on, and its write-back.           *)
(***************************************************************************)
Cur ==
    [assignment |-> assignment, stack |-> stack, decision_level |-> decision_level,
     propagations |-> stats.propagations, conflicts |-> stats.conflicts,
     conflicts_since_restart |-> conflicts_since_restart]

Commit(s, decisions, restarts) ==
    /\ assignment' = s.assignment
    /\ stack' = s.stack
    /\ decision_level' = s.decision_level
    /\ conflicts_since_restart' = s.conflicts_since_restart
    /\ stats' = [decisions |-> decisions, propagations |-> s.propagations,
                 conflicts |-> s.conflicts, restarts |-> restarts]

Return(value, site) ==
    /\ result' = value
    /\ ret_site' = site
    /\ pc' = "done"

Goto(label) ==
    /\ pc' = label
    /\ UNCHANGED <<output, result, ret_site>>

(***************************************************************************)
(* Init: solver_create_with_config on a freshly parsed formula.            *)
(***************************************************************************)
Init ==
    /\ \/ formula \in LibraryFormulas /\ config \in Configs
       \/ formula \in CliFormulas /\ config \in CliConfigs
    /\ variable_used = variables_marked(formula)
    /\ parser = parser_destroyed
    /\ assignment = [v \in 1..formula.num_variables |-> VAR_UNASSIGNED]
    /\ stack = <<>>
    /\ decision_level = 0
    /\ stats = [decisions |-> 0, propagations |-> 0, conflicts |-> 0, restarts |-> 0]
    /\ conflicts_since_restart = 0
    /\ iterations = 0
    /\ progress_made = FALSE
    /\ pc = "solve"
    /\ result = "NONE"
    /\ ret_site = "none"
    /\ output = nothing_written

(***************************************************************************)
(* solver_solve up to the call of dpll_algorithm.                          *)
(***************************************************************************)
SolveStart ==
    /\ pc = "solve"
    /\ LET s == IF config.enable_preprocessing
                THEN preprocess_formula(formula, Cur) ELSE Cur
       IN /\ Commit(s, stats.decisions, stats.restarts)
          /\ IF config.enable_preprocessing /\ Len(formula.clauses) = 0
             THEN Return("SATISFIABLE", "preprocess_empty") /\ UNCHANGED config
             ELSE IF config.enable_preprocessing /\ has_conflict(formula, s.assignment)
             THEN Return("UNSATISFIABLE", "preprocess_conflict") /\ UNCHANGED config
             ELSE /\ config' = [config EXCEPT !.max_decisions =
                                   IF @ = 0 THEN DEFAULT_MAX_DECISIONS ELSE @]
                  /\ Goto("loop")
    /\ UNCHANGED <<output, formula, variable_used, parser, iterations, progress_made>>

(***************************************************************************)
(* dpll_algorithm, one action per stage of an iteration of the outer loop. *)
(***************************************************************************)
\* Variant: the iteration is not counted.
LoopHead_uncounted ==
    /\ pc = "loop"
    /\ IF ~(iterations < max_iterations)
       THEN /\ Return("TIMEOUT", "iteration_cap")
            /\ UNCHANGED <<iterations, progress_made>>
       ELSE /\ iterations' = iterations
            /\ progress_made' = FALSE
            /\ IF is_formula_satisfied(formula, assignment)
               THEN Return("SATISFIABLE", "loop_satisfied")
               ELSE IF has_conflict(formula, assignment)
               THEN Goto("backtrack")
               ELSE Goto("propagate")
    /\ UNCHANGED <<output, formula, variable_used, parser, config, assignment, stack, decision_level, stats,
                   conflicts_since_restart>>

\* The loop condition, the top of the body, and checks 3 and 4.
LoopHead ==
    /\ pc = "loop"
    /\ IF ~(iterations < max_iterations)
       THEN /\ Return("TIMEOUT", "iteration_cap")
            /\ UNCHANGED <<iterations, progress_made>>
       ELSE /\ iterations' = iterations + 1
            /\ progress_made' = FALSE
            /\ IF is_formula_satisfied(formula, assignment)
               THEN Return("SATISFIABLE", "loop_satisfied")
               ELSE IF has_conflict(formula, assignment)
               THEN Goto("backtrack")
               ELSE Goto("propagate")
    /\ UNCHANGED <<output, formula, variable_used, parser, config, assignment, stack, decision_level, stats,
                   conflicts_since_restart>>

\* SOLVER_TIMEOUT_CHECK: the wall clock may have passed the limit at the top
\* of any iteration.
Timeout ==
    /\ pc = "loop"
    /\ iterations < max_iterations
    /\ iterations' = iterations + 1
    /\ Return("TIMEOUT", "clock")
    /\ UNCHANGED <<output, formula, variable_used, parser, config, assignment, stack, decision_level, stats,
                   conflicts_since_restart, progress_made>>

\* `if (!backtrack(solver)) return UNSATISFIABLE; progress_made = true; continue;'
Backtrack ==
    /\ pc = "backtrack"
    /\ LET r == backtrack(formula, Cur)
       IN /\ Commit(r.s, stats.decisions, stats.restarts)
          /\ IF r.ok
             THEN progress_made' = TRUE /\ Goto("loop")
             ELSE UNCHANGED progress_made /\ Return("UNSATISFIABLE", "backtrack_failed")
    /\ UNCHANGED <<output, formula, variable_used, parser, config, iterations>>

\* Step 1: unit propagation and the conflict check after it.
Propagate ==
    /\ pc = "propagate"
    /\ LET s == IF config.enable_unit_propagation
                THEN unit_propagation(formula, Cur) ELSE Cur
       IN /\ Commit(s, stats.decisions, stats.restarts)
          /\ progress_made' = (progress_made \/ Len(s.stack) > Len(stack))
          /\ IF config.enable_unit_propagation /\ has_conflict(formula, s.assignment)
             THEN Goto("backtrack")
             ELSE Goto("pure")
    /\ UNCHANGED <<output, formula, variable_used, parser, config, iterations>>

\* Step 2: pure literal elimination and the conflict check after it.
Pure ==
    /\ pc = "pure"
    /\ LET r == IF config.enable_pure_literal
                THEN pure_literal_elimination(formula, Cur)
                ELSE [s |-> Cur, changed |-> FALSE]
       IN /\ Commit(r.s, stats.decisions, stats.restarts)
          /\ progress_made' = (progress_made \/ r.changed)
          /\ IF config.enable_pure_literal /\ has_conflict(formula, r.s.assignment)
             THEN Goto("backtrack")
             ELSE Goto("branch")
    /\ UNCHANGED <<output, formula, variable_used, parser, config, iterations>>

\* Variant: the cap is tested with > instead of >=.
Branch_cap_exceeded ==
    /\ pc = "branch"
    /\ \E decision_var \in
            choose_decision_variable(formula, assignment, config.decision_strategy) :
          IF decision_var = 0
          THEN /\ IF is_formula_satisfied(formula, assignment)
                  THEN Return("SATISFIABLE", "branch_satisfied")
                  ELSE Return("UNSATISFIABLE", "branch_unsatisfied")
               /\ UNCHANGED <<assignment, stack, decision_level, stats,
                              conflicts_since_restart, progress_made>>
          ELSE IF ~assign_variable_ok(formula, decision_var)
          THEN /\ Return("ERROR", "assign_failed")
               /\ UNCHANGED <<assignment, stack, decision_level, stats,
                              conflicts_since_restart, progress_made>>
          ELSE /\ Commit(assign_variable(formula, Cur, decision_var,
                                         choose_decision_value(decision_var), TRUE),
                         stats.decisions + 1, stats.restarts)
               /\ progress_made' = TRUE
               /\ IF config.max_decisions > 0
                     /\ stats.decisions + 1 > config.max_decisions
                  THEN Return("UNKNOWN", "decision_cap")
                  ELSE Goto("restart")
    /\ UNCHANGED <<output, formula, variable_used, parser, config, iterations>>

\* Variant: the decision is not recorded as progress.
Branch_without_progress ==
    /\ pc = "branch"
    /\ \E decision_var \in
            choose_decision_variable(formula, assignment, config.decision_strategy) :
          IF decision_var = 0
          THEN /\ IF is_formula_satisfied(formula, assignment)
                  THEN Return("SATISFIABLE", "branch_satisfied")
                  ELSE Return("UNSATISFIABLE", "branch_unsatisfied")
               /\ UNCHANGED <<assignment, stack, decision_level, stats,
                              conflicts_since_restart, progress_made>>
          ELSE IF ~assign_variable_ok(formula, decision_var)
          THEN /\ Return("ERROR", "assign_failed")
               /\ UNCHANGED <<assignment, stack, decision_level, stats,
                              conflicts_since_restart, progress_made>>
          ELSE /\ Commit(assign_variable(formula, Cur, decision_var,
                                         choose_decision_value(decision_var), TRUE),
                         stats.decisions + 1, stats.restarts)
               /\ UNCHANGED progress_made
               /\ IF config.max_decisions > 0
                     /\ stats.decisions + 1 >= config.max_decisions
                  THEN Return("UNKNOWN", "decision_cap")
                  ELSE Goto("restart")
    /\ UNCHANGED <<output, formula, variable_used, parser, config, iterations>>

\* Steps 5 and 6: the decision and the decision cap.
Branch ==
    /\ pc = "branch"
    /\ \E decision_var \in
            choose_decision_variable(formula, assignment, config.decision_strategy) :
          IF decision_var = 0
          THEN /\ IF is_formula_satisfied(formula, assignment)
                  THEN Return("SATISFIABLE", "branch_satisfied")
                  ELSE Return("UNSATISFIABLE", "branch_unsatisfied")
               /\ UNCHANGED <<assignment, stack, decision_level, stats,
                              conflicts_since_restart, progress_made>>
          ELSE IF ~assign_variable_ok(formula, decision_var)
          THEN /\ Return("ERROR", "assign_failed")
               /\ UNCHANGED <<assignment, stack, decision_level, stats,
                              conflicts_since_restart, progress_made>>
          ELSE /\ Commit(assign_variable(formula, Cur, decision_var,
                                         choose_decision_value(decision_var), TRUE),
                         stats.decisions + 1, stats.restarts)
               /\ progress_made' = TRUE
               /\ IF config.max_decisions > 0
                     /\ stats.decisions + 1 >= config.max_decisions
                  THEN Return("UNKNOWN", "decision_cap")
                  ELSE Goto("restart")
    /\ UNCHANGED <<output, formula, variable_used, parser, config, iterations>>

\* The restart check and the no-progress guard that end the iteration.
Restart ==
    /\ pc = "restart"
    /\ LET restarting == config.enable_restarts /\ should_restart(Cur, config)
           s == IF restarting
                THEN [perform_restart(formula, Cur) EXCEPT !.conflicts_since_restart = 0]
                ELSE Cur
           progress == progress_made \/ restarting
       IN /\ Commit(s, stats.decisions,
                    IF restarting THEN stats.restarts + 1 ELSE stats.restarts)
          /\ progress_made' = progress
          /\ IF ~progress
             THEN Return("UNKNOWN", "no_progress")
             ELSE Goto("loop")
    /\ UNCHANGED <<output, formula, variable_used, parser, config, iterations>>

Next ==
    \/ SolveStart
    \/ LoopHead
    \/ Timeout
    \/ Backtrack
    \/ Propagate
    \/ Pure
    \/ Branch
    \/ Restart

Spec == Init /\ [][Next]_vars

(***************************************************************************)
(* The library used directly.  A caller may fill formula->assignment       *)
(* before it creates the solver, and may call unit_propagation,            *)
(* pure_literal_elimination and cnf_add_clause itself instead of           *)
(* solver_solve.  The solver functions index the assignment array by the   *)
(* variables of the clauses, so they are called on formulas whose literals *)
(* are in range.                                                           *)
(***************************************************************************)
\* Three unit propagations, each found one pass after the other.
ReverseChain == [num_variables |-> 3, clauses |-> << <<-2, 3>>, <<-1, 2>>, <<1>> >>]

LibFormulas == LibraryFormulas \cup {ReverseChain}

\* Every combination of the three simplification switches.
LibConfigs ==
    {c \in Configs : /\ c.decision_strategy = DECISION_FIRST_UNASSIGNED
                     /\ ~c.enable_restarts
                     /\ c.max_decisions = 0}

PartialAssignments(n) == [1..n -> {VAR_UNASSIGNED, VAR_TRUE, VAR_FALSE}]

LibInit ==
    /\ formula \in LibFormulas
    /\ config \in LibConfigs
    /\ variable_used = variables_marked(formula)
    /\ parser = parser_destroyed
    /\ assignment \in PartialAssignments(formula.num_variables)
    /\ stack = <<>>
    /\ decision_level = 0
    /\ stats = [decisions |-> 0, propagations |-> 0, conflicts |-> 0, restarts |-> 0]
    /\ conflicts_since_restart = 0
    /\ iterations = 0
    /\ progress_made = FALSE
    /\ pc = "solve"
    /\ result = "NONE"
    /\ ret_site = "none"
    /\ output = nothing_written

\* unit_propagation called by the user of the library.  Its early return
\* yields UNKNOWN, like the final return on a formula that is not satisfied.
CallUnitPropagation ==
    /\ pc = "solve"
    /\ LET s == unit_propagation(formula, Cur)
       IN /\ Commit(s, stats.decisions, stats.restarts)
          /\ result' = IF cnf_is_satisfied(formula, s.assignment)
                       THEN "SATISFIABLE" ELSE "UNKNOWN"
    /\ pc' = "unit_returned"
    /\ ret_site' = "unit_propagation"
    /\ UNCHANGED <<output, formula, variable_used, parser, config, iterations, progress_made>>

\* pure_literal_elimination called by the user of the library; it returns
\* whether it assigned a variable.
CallPureLiteralElimination ==
    /\ pc = "solve"
    /\ LET r == pure_literal_elimination(formula, Cur)
       IN /\ Commit(r.s, stats.decisions, stats.restarts)
          /\ result' = IF r.changed THEN "true" ELSE "false"
    /\ pc' = "pure_returned"
    /\ ret_site' = "pure_literal_elimination"
    /\ UNCHANGED <<output, formula, variable_used, parser, config, iterations, progress_made>>


(***************************************************************************)
(* The DIMACS parser (parser.c) and the construction of formulas           *)
(* (structures.c).  A line of the stream is a record [kind, tokens]:       *)
(*   "c"       a comment or an empty line,                                 *)
(*   "p"       the line `p cnf V C', tokens = <<V, C>>,                    *)
(*   "clause"  any other line, tokens = its integers (with or without the  *)
(*             final 0).                                                   *)
(* Tokens that are not integers are not modelled.                          *)
(***************************************************************************)
no_formula == [num_variables |-> 0, clauses |-> <<>>]

cnf_create(num_variables) ==
    IF num_variables <= 0
    THEN [ok |-> FALSE, formula |-> no_formula,
          assignment |-> <<>>, variable_used |-> <<>>]
    ELSE [ok |-> TRUE,
          formula |-> [num_variables |-> num_variables, clauses |-> <<>>],
          assignment |-> [v \in 1..num_variables |-> VAR_UNASSIGNED],
          variable_used |-> [v \in 1..num_variables |-> FALSE]]

clause_add_literal(clause, literal) ==
    IF \E i \in 1..Len(clause) : clause[i] = literal
    THEN clause
    ELSE Append(clause, literal)

\* cnf_add_clause: marks the variables of the clause that are within
\* 1..num_variables and appends the clause (allocation does not fail).
cnf_add_clause(cnf, used, clause) ==
    [ok |-> TRUE,
     cnf |-> [cnf EXCEPT !.clauses = Append(@, clause)],
     variable_used |->
        [v \in DOMAIN used |->
            used[v] \/ \E i \in 1..Len(clause) : literal_variable(clause[i]) = v]]

\* A clause built by calling clause_add_literal on each literal in turn.
RECURSIVE clause_of_literals(_, _, _)
clause_of_literals(literals, i, clause) ==
    IF i > Len(literals) THEN clause
    ELSE clause_of_literals(literals, i + 1, clause_add_literal(clause, literals[i]))

is_valid_variable(var, max_variables) == var >= 1 /\ var <= max_variables

is_valid_literal(lit, max_variables) ==
    IF lit = 0 THEN FALSE
    ELSE is_valid_variable(IF lit > 0 THEN lit ELSE -lit, max_variables)

parse_problem_line(tokens) ==
    IF tokens[1] <= 0 \/ tokens[2] < 0
    THEN "PARSE_ERROR_INVALID_PROBLEM_LINE"
    ELSE "PARSE_OK"

RECURSIVE parse_clause_scan(_, _, _, _)
parse_clause_scan(tokens, i, clause, max_variables) ==
    IF i > Len(tokens)
    THEN [result |-> "PARSE_ERROR_CLAUSE_NOT_TERMINATED", clause |-> clause]
    ELSE IF tokens[i] = 0
    THEN [result |-> "PARSE_OK", clause |-> clause]
    ELSE IF ~is_valid_literal(tokens[i], max_variables)
    THEN [result |-> "PARSE_ERROR_VARIABLE_OUT_OF_RANGE", clause |-> clause]
    ELSE parse_clause_scan(tokens, i + 1, clause_add_literal(clause, tokens[i]),
                           max_variables)

parse_clause_line(tokens, max_variables) ==
    parse_clause_scan(tokens, 1, <<>>, max_variables)

\* One iteration of the while loop of parser_parse_stream on the line just
\* read.  ret is "NONE" when the loop goes on and the value returned
\* otherwise.
parser_step(ps, f, a, used, line) ==
    LET same == [ret |-> "NONE", parser |-> ps, formula |-> f,
                 assignment |-> a, variable_used |-> used]
    IN IF line.kind = "c" THEN same
       ELSE IF line.kind = "p"
       THEN IF ps.problem_line_found
            THEN [same EXCEPT !.ret = "PARSE_ERROR_INVALID_PROBLEM_LINE"]
            ELSE IF parse_problem_line(line.tokens) # "PARSE_OK"
            THEN [same EXCEPT !.ret = parse_problem_line(line.tokens)]
            ELSE LET created == cnf_create(line.tokens[1])
                 IN [ret |-> "NONE",
                     parser |-> [ps EXCEPT !.max_variables = line.tokens[1],
                                           !.expected_clauses = line.tokens[2],
                                           !.problem_line_found = TRUE],
                     formula |-> created.formula,
                     assignment |-> created.assignment,
                     variable_used |-> created.variable_used]
       ELSE IF ~ps.problem_line_found
       THEN [same EXCEPT !.ret = "PARSE_ERROR_NO_PROBLEM_LINE"]
       ELSE LET parsed == parse_clause_line(line.tokens, ps.max_variables)
                clause == parsed.clause
            IN IF parsed.result # "PARSE_OK"
               THEN [same EXCEPT !.ret = parsed.result]
               ELSE IF Len(clause) = 0
               THEN IF ps.strict_mode
                    THEN [same EXCEPT !.ret = "PARSE_ERROR_INVALID_CLAUSE"]
                    ELSE same
               ELSE IF clause_is_tautology(clause) THEN same
               ELSE LET added == cnf_add_clause(f, used, clause)
                    IN [ret |-> "NONE",
                        parser |-> [ps EXCEPT !.parsed_clauses = @ + 1],
                        formula |-> added.cnf,
                        assignment |-> a,
                        variable_used |-> added.variable_used]

\* The checks of parser_parse_stream after the last line.
parser_end_of_stream(ps) ==
    IF ~ps.problem_line_found THEN "PARSE_ERROR_NO_PROBLEM_LINE"
    ELSE IF ps.strict_mode /\ ps.parsed_clauses # ps.expected_clauses
    THEN "PARSE_ERROR_INVALID_FORMAT"
    ELSE "PARSE_OK"

Tokens == (-(FamilyVars + 1)..(FamilyVars + 1)) \ {0}

TokenLists == UNION {[1..k -> Tokens] : k \in 0..MaxTokens}

StreamLines ==
    {[kind |-> "c", tokens |-> <<>>]}
    \cup {[kind |-> "p", tokens |-> <<v, c>>] : v \in 0..FamilyVars, c \in 0..1}
    \cup {[kind |-> "clause", tokens |-> ts] : ts \in TokenLists}
    \cup {[kind |-> "clause", tokens |-> ts \o <<0>>] : ts \in TokenLists}

\* A parser somewhere in its stream: before the problem line, or after it
\* with some clauses stored.
ParserStates ==
    {[status |-> "reading", strict_mode |-> strict, problem_line_found |-> FALSE,
      max_variables |-> 0, expected_clauses |-> 0, parsed_clauses |-> 0,
      line |-> [kind |-> "c", tokens |-> <<>>]] : strict \in BOOLEAN}
    \cup {[status |-> "reading", strict_mode |-> strict, problem_line_found |-> TRUE,
           max_variables |-> FamilyVars, expected_clauses |-> expected,
           parsed_clauses |-> parsed,
           line |-> [kind |-> "c", tokens |-> <<>>]] :
              strict \in BOOLEAN, expected \in 0..(MaxClauses + 1),
              parsed \in 0..MaxClauses}

ParseInit ==
    /\ parser \in ParserStates
    /\ formula \in IF parser.problem_line_found
                   THEN {f \in FamilyFormulas : Len(f.clauses) = parser.parsed_clauses}
                   ELSE {no_formula}
    /\ variable_used = variables_marked(formula)
    /\ assignment = [v \in 1..formula.num_variables |-> VAR_UNASSIGNED]
    /\ config = CliConfig(DECISION_FIRST_UNASSIGNED, 0)
    /\ stack = <<>>
    /\ decision_level = 0
    /\ stats = [decisions |-> 0, propagations |-> 0, conflicts |-> 0, restarts |-> 0]
    /\ conflicts_since_restart = 0
    /\ iterations = 0
    /\ progress_made = FALSE
    /\ pc = "parse"
    /\ result = "NONE"
    /\ ret_site = "none"
    /\ output = nothing_written

\* fgets delivers one more line and the loop body handles it.
ReadLine ==
    /\ pc = "parse"
    /\ \E line \in StreamLines :
          LET r == parser_step([parser EXCEPT !.line = line], formula, assignment,
                               variable_used, line)
          IN /\ formula' = r.formula
             /\ assignment' = r.assignment
             /\ variable_used' = r.variable_used
             /\ result' = r.ret
             /\ IF r.ret = "NONE"
                THEN /\ parser' = r.parser
                     /\ pc' = "line_done"
                     /\ UNCHANGED ret_site
                ELSE /\ parser' = [r.parser EXCEPT !.status = "returned"]
                     /\ pc' = "parsed"
                     /\ ret_site' = "parse_line"
    /\ UNCHANGED <<output, config, stack, decision_level, stats, conflicts_since_restart,
                   iterations, progress_made>>

\* fgets reports the end of the stream.
EndOfStream ==
    /\ pc \in {"parse", "line_done"}
    /\ result' = parser_end_of_stream(parser)
    /\ parser' = [parser EXCEPT !.status = "returned"]
    /\ pc' = "parsed"
    /\ ret_site' = "end_of_stream"
    /\ UNCHANGED <<output, formula, variable_used, config, assignment, stack, decision_level,
                   stats, conflicts_since_restart, iterations, progress_made>>

ParseNext ==
    \/ ReadLine
    \/ EndOfStream

ParseSpec == ParseInit /\ [][ParseNext]_vars

(***************************************************************************)
(* Writing a formula and reading it back (parser.c).  The writer emits a   *)
(* comment, the problem line with N and the number of stored clauses, and  *)
(* one line per clause: its literals, each followed by a blank, and 0.     *)
(* The second parser keeps what it builds in its own formula field.        *)
(***************************************************************************)
\* Variant: the clause lines are written without their final 0.
parser_write_cnf_stream_unterminated(cnf) ==
    << [kind |-> "c", tokens |-> <<>>],
       [kind |-> "p", tokens |-> <<cnf.num_variables, Len(cnf.clauses)>>] >>
    \o [i \in 1..Len(cnf.clauses) |-> [kind |-> "clause", tokens |-> cnf.clauses[i]]]

parser_write_cnf_stream(cnf) ==
    << [kind |-> "c", tokens |-> <<>>],
       [kind |-> "p", tokens |-> <<cnf.num_variables, Len(cnf.clauses)>>] >>
    \o [i \in 1..Len(cnf.clauses) |->
           [kind |-> "clause", tokens |-> cnf.clauses[i] \o <<0>>]]

\* parser_create followed by parser_reset: no formula, counters at 0.
parser_create(strict_mode) ==
    [status |-> "reading", strict_mode |-> strict_mode, problem_line_found |-> FALSE,
     max_variables |-> 0, expected_clauses |-> 0, parsed_clauses |-> 0,
     line |-> [kind |-> "c", tokens |-> <<>>],
     formula |-> no_formula, assignment |-> <<>>, variable_used |-> <<>>]

\* Formulas as the parser builds them, with up to MaxClauses + 1 clauses so
\* that a clause can occur twice.
WrittenFormulas ==
    {[num_variables |-> FamilyVars, clauses |-> cs] :
        cs \in UNION {[1..k -> ClausePool(FamilyVars)] : k \in 0..(MaxClauses + 1)}}
    \cup {Scenario1, Scenario2, Scenario3, FlipTwice}

RoundTripInit ==
    /\ formula \in WrittenFormulas
    /\ variable_used = variables_marked(formula)
    /\ assignment = [v \in 1..formula.num_variables |-> VAR_UNASSIGNED]
    /\ parser \in {parser_create(strict) : strict \in BOOLEAN}
    /\ config = CliConfig(DECISION_FIRST_UNASSIGNED, 0)
    /\ stack = <<>>
    /\ decision_level = 0
    /\ stats = [decisions |-> 0, propagations |-> 0, conflicts |-> 0, restarts |-> 0]
    /\ conflicts_since_restart = 0
    /\ iterations = 0
    /\ progress_made = FALSE
    /\ pc = "write"
    /\ result = "NONE"
    /\ ret_site = "none"
    /\ output = nothing_written

\* parser_write_cnf_stream(formula, stream).
WriteCnfStream ==
    /\ pc = "write"
    /\ output' = [output EXCEPT !.lines = parser_write_cnf_stream(formula)]
    /\ pc' = "reread"
    /\ UNCHANGED <<formula, variable_used, parser, config, assignment, stack,
                   decision_level, stats, conflicts_since_restart, iterations,
                   progress_made, result, ret_site>>

\* The second parser reads the next line of what was written.
RereadLine ==
    /\ pc = "reread"
    /\ output.lines # <<>>
    /\ LET line == Head(output.lines)
           r == parser_step([parser EXCEPT !.line = line], parser.formula,
                            parser.assignment, parser.variable_used, line)
       IN /\ result' = r.ret
          /\ IF r.ret = "NONE"
             THEN /\ parser' = [r.parser EXCEPT !.formula = r.formula,
                                                !.assignment = r.assignment,
                                                !.variable_used = r.variable_used]
                  /\ pc' = "reread"
                  /\ UNCHANGED ret_site
             ELSE /\ parser' = [r.parser EXCEPT !.status = "returned"]
                  /\ pc' = "reparsed"
                  /\ ret_site' = "parse_line"
    /\ output' = [output EXCEPT !.lines = Tail(@)]
    /\ UNCHANGED <<formula, variable_used, config, assignment, stack, decision_level,
                   stats, conflicts_since_restart, iterations, progress_made>>

\* The second parser finds the end of what was written.
RereadEnd ==
    /\ pc = "reread"
    /\ output.lines = <<>>
    /\ result' = parser_end_of_stream(parser)
    /\ parser' = [parser EXCEPT !.status = "returned"]
    /\ pc' = "reparsed"
    /\ ret_site' = "end_of_stream"
    /\ UNCHANGED <<output, formula, variable_used, config, assignment, stack,
                   decision_level, stats, conflicts_since_restart, iterations,
                   progress_made>>

RoundTripNext ==
    \/ WriteCnfStream
    \/ RereadLine
    \/ RereadEnd

RoundTripSpec == RoundTripInit /\ [][RoundTripNext]_vars

(***************************************************************************)
(* The clause evaluation functions applied to one clause and one           *)
(* assignment.  The clause is built with clause_create and                 *)
(* clause_add_literal: it may be empty or hold both polarities of a        *)
(* variable, and holds no literal twice.                                   *)
(***************************************************************************)
EvaluatedClauses ==
    {clause_of_literals(literals, 1, <<>>) :
        literals \in UNION {[1..k -> (-FamilyVars..FamilyVars) \ {0}] : k \in 0..MaxTokens}}

EvalInit ==
    /\ formula \in {[num_variables |-> FamilyVars, clauses |-> <<clause>>] :
                        clause \in EvaluatedClauses}
    /\ variable_used = variables_marked(formula)
    /\ assignment \in PartialAssignments(FamilyVars)
    /\ parser = parser_destroyed
    /\ config = CliConfig(DECISION_FIRST_UNASSIGNED, 0)
    /\ stack = <<>>
    /\ decision_level = 0
    /\ stats = [decisions |-> 0, propagations |-> 0, conflicts |-> 0, restarts |-> 0]
    /\ conflicts_since_restart = 0
    /\ iterations = 0
    /\ progress_made = FALSE
    /\ pc = "evaluate"
    /\ result = [satisfied |-> FALSE, unit |-> FALSE, unit_literal |-> 0,
                 conflicting |-> FALSE]
    /\ ret_site = "none"
    /\ output = nothing_written

\* clause_is_satisfied, clause_is_unit and clause_is_conflicting called on the
\* clause; unit_literal is 0 when clause_is_unit returns false.
EvaluateClause ==
    /\ pc = "evaluate"
    /\ result' = [satisfied |-> clause_is_satisfied(formula.clauses[1], assignment),
                  unit |-> clause_is_unit(formula.clauses[1], assignment) # 0,
                  unit_literal |-> clause_is_unit(formula.clauses[1], assignment),
                  conflicting |-> clause_is_conflicting(formula.clauses[1], assignment)]
    /\ pc' = "evaluated"
    /\ ret_site' = "clause evaluation"
    /\ UNCHANGED <<output, formula, variable_used, parser, config, assignment, stack,
                   decision_level, stats, conflicts_since_restart, iterations,
                   progress_made>>

EvalNext == EvaluateClause

EvalSpec == EvalInit /\ [][EvalNext]_vars

(***************************************************************************)
(* The assignment stack driven through its primitives (structures.c), from *)
(* the empty stack assignment_stack_create returns.  The formula's         *)
(* assignment vector is not touched by them.                               *)
(***************************************************************************)
StackInit ==
    /\ formula = [num_variables |-> FamilyVars, clauses |-> <<>>]
    /\ variable_used = variables_marked(formula)
    /\ assignment = [v \in 1..formula.num_variables |-> VAR_UNASSIGNED]
    /\ parser = parser_destroyed
    /\ config = CliConfig(DECISION_FIRST_UNASSIGNED, 0)
    /\ stack = <<>>
    /\ decision_level = 0
    /\ stats = [decisions |-> 0, propagations |-> 0, conflicts |-> 0, restarts |-> 0]
    /\ conflicts_since_restart = 0
    /\ iterations = 0
    /\ progress_made = FALSE
    /\ pc = "stack"
    /\ result = "NONE"
    /\ ret_site = "none"
    /\ output = nothing_written

CallStackPush ==
    /\ pc = "stack"
    /\ Len(stack) < MaxStack
    /\ \E var \in 1..formula.num_variables, value \in {VAR_TRUE, VAR_FALSE},
          is_decision \in BOOLEAN :
          Commit(assignment_stack_push(Cur, var, value, is_decision),
                 stats.decisions, stats.restarts)
    /\ result' = "true"
    /\ ret_site' = "assignment_stack_push"
    /\ UNCHANGED <<output, formula, variable_used, parser, config, iterations,
                   progress_made, pc>>

\* assignment_stack_pop returns false on an empty stack.
CallStackPop ==
    /\ pc = "stack"
    /\ Commit(assignment_stack_pop(Cur), stats.decisions, stats.restarts)
    /\ result' = IF Len(stack) = 0 THEN "false" ELSE "true"
    /\ ret_site' = "assignment_stack_pop"
    /\ UNCHANGED <<output, formula, variable_used, parser, config, iterations,
                   progress_made, pc>>

\* assignment_stack_backtrack_to_level with a level not above the current one.
CallStackBacktrackToLevel ==
    /\ pc = "stack"
    /\ \E level \in 0..decision_level :
          Commit(assignment_stack_backtrack_to_level(Cur, level),
                 stats.decisions, stats.restarts)
    /\ result' = "void"
    /\ ret_site' = "assignment_stack_backtrack_to_level"
    /\ UNCHANGED <<output, formula, variable_used, parser, config, iterations,
                   progress_made, pc>>

StackNext ==
    \/ CallStackPush
    \/ CallStackPop
    \/ CallStackBacktrackToLevel

StackSpec == StackInit /\ [][StackNext]_vars

(***************************************************************************)
(* choose_decision_variable called on a solver whose formula carries any   *)
(* partial assignment; result is the variable it returns.                  *)
(***************************************************************************)
HeuristicInit ==
    /\ formula \in LibFormulas
    /\ config \in {CliConfig(strategy, 0) : strategy \in Strategies}
    /\ variable_used = variables_marked(formula)
    /\ parser = parser_destroyed
    /\ assignment \in PartialAssignments(formula.num_variables)
    /\ stack = <<>>
    /\ decision_level = 0
    /\ stats = [decisions |-> 0, propagations |-> 0, conflicts |-> 0, restarts |-> 0]
    /\ conflicts_since_restart = 0
    /\ iterations = 0
    /\ progress_made = FALSE
    /\ pc = "choose"
    /\ result = 0
    /\ ret_site = "none"
    /\ output = nothing_written

CallChooseDecisionVariable ==
    /\ pc = "choose"
    /\ result' \in choose_decision_variable(formula, assignment, config.decision_strategy)
    /\ pc' = "chosen"
    /\ ret_site' = "choose_decision_variable"
    /\ UNCHANGED <<output, formula, variable_used, parser, config, assignment, stack,
                   decision_level, stats, conflicts_since_restart, iterations,
                   progress_made>>

HeuristicNext == CallChooseDecisionVariable

HeuristicSpec == HeuristicInit /\ [][HeuristicNext]_vars

(***************************************************************************)
(* unit_propagation pass by pass.  One step is one iteration of its        *)
(* do-while loop: the for loop over the clauses, then the test of          *)
(* `propagated'.  The code keeps no count of the passes; here `iterations' *)
(* counts the passes of the call in progress.  CallUnitPropagation is the  *)
(* same call taken as a whole.                                             *)
(***************************************************************************)
\* The configuration is not read by unit_propagation.
PropagationInit == LibInit /\ config = CliConfig(DECISION_FIRST_UNASSIGNED, 0)

\* Variant: the loop is left only from its second pass on.
UnitPass_at_least_twice ==
    /\ pc \in {"solve", "unit_pass"}
    /\ LET pass == unit_scan(formula, Cur, 1, FALSE)
       IN /\ Commit(pass.s, stats.decisions, stats.restarts)
          /\ iterations' = iterations + 1
          /\ IF pass.returned \/ (~pass.propagated /\ iterations >= 1)
             THEN /\ result' = IF cnf_is_satisfied(formula, pass.s.assignment)
                               THEN "SATISFIABLE" ELSE "UNKNOWN"
                  /\ pc' = "unit_returned"
                  /\ ret_site' = "unit_propagation"
             ELSE /\ pc' = "unit_pass"
                  /\ UNCHANGED <<result, ret_site>>
    /\ UNCHANGED <<output, formula, variable_used, parser, config, progress_made>>

UnitPass ==
    /\ pc \in {"solve", "unit_pass"}
    /\ LET pass == unit_scan(formula, Cur, 1, FALSE)
       IN /\ Commit(pass.s, stats.decisions, stats.restarts)
          /\ iterations' = iterations + 1
          /\ IF pass.returned \/ ~pass.propagated
             THEN /\ result' = IF cnf_is_satisfied(formula, pass.s.assignment)
                               THEN "SATISFIABLE" ELSE "UNKNOWN"
                  /\ pc' = "unit_returned"
                  /\ ret_site' = "unit_propagation"
             ELSE /\ pc' = "unit_pass"
                  /\ UNCHANGED <<result, ret_site>>
    /\ UNCHANGED <<output, formula, variable_used, parser, config, progress_made>>

PropagationNext ==
    \/ UnitPass
    \/ CallUnitPropagation

PropagationSpec == PropagationInit /\ [][PropagationNext]_vars

\* The call is sequential code: a pass that can be taken is taken.
PropagationFairSpec == PropagationSpec /\ WF_vars(PropagationNext)

(***************************************************************************)
(* The library as a whole: solver_solve and the functions a caller may     *)
(* invoke on a formula directly.                                           *)
(***************************************************************************)
\* The clauses a caller may build with clause_add_literal for a formula of
\* n variables; the variable n + 1 is outside the formula's range.
AdmissionClauses(n) ==
    {clause_of_literals(literals, 1, <<>>) :
        literals \in UNION {[1..k -> (-(n + 1)..(n + 1)) \ {0}] : k \in 1..MaxTokens}}

\* cnf_add_clause called by the user of the library.
CallCnfAddClause ==
    /\ pc = "solve"
    /\ \E clause \in AdmissionClauses(formula.num_variables) :
          LET added == cnf_add_clause(formula, variable_used, clause)
          IN /\ formula' = added.cnf
             /\ variable_used' = added.variable_used
             /\ result' = IF added.ok THEN "true" ELSE "false"
    /\ pc' = "added"
    /\ ret_site' = "cnf_add_clause"
    /\ UNCHANGED <<output, parser, config, assignment, stack, decision_level, stats,
                   conflicts_since_restart, iterations, progress_made>>

\* assign_variable called by the user of the library.  variable_t is a signed
\* 32-bit integer and the guard tests only var == 0 and var > N, so a
\* negative var passes it: the store to assignment[var] then falls outside
\* the array (undefined behaviour).  Either the store lands in memory that
\* is not part of the assignment vector and the call goes on to push the
\* entry, or the process is stopped at the store.
CallAssignVariable ==
    /\ pc = "solve"
    /\ \E var \in (-1)..(formula.num_variables + 1),
          value \in {VAR_TRUE, VAR_FALSE}, is_decision \in BOOLEAN :
          IF ~assign_variable_ok(formula, var)
          THEN /\ result' = "false"
               /\ pc' = "assigned"
               /\ UNCHANGED <<assignment, stack, decision_level, stats,
                              conflicts_since_restart>>
          ELSE IF var >= 1
          THEN /\ Commit(assign_variable(formula, Cur, var, value, is_decision),
                         stats.decisions, stats.restarts)
               /\ result' = "true"
               /\ pc' = "assigned"
          ELSE \/ /\ Commit(assignment_stack_push(Cur, var, value, is_decision),
                            stats.decisions, stats.restarts)
                  /\ result' = "true"
                  /\ pc' = "assigned"
               \/ /\ result' = "fault"
                  /\ pc' = "assigned"
                  /\ UNCHANGED <<assignment, stack, decision_level, stats,
                                 conflicts_since_restart>>
    /\ ret_site' = "assign_variable"
    /\ UNCHANGED <<output, formula, variable_used, parser, config, iterations, progress_made>>

\* The labels at which a function called directly by the user has returned.
DirectCallLabels == {"unit_returned", "pure_returned", "added", "assigned"}

LibNext ==
    \/ Next
    \/ CallUnitPropagation
    \/ CallPureLiteralElimination
    \/ CallCnfAddClause
    \/ CallAssignVariable

LibSpec == LibInit /\ [][LibNext]_vars

(***************************************************************************)
(* The command line's view of a result (main.c).                           *)
(***************************************************************************)
status_str(r) ==
    CASE r = "SATISFIABLE" -> "SATISFIABLE"
      [] r = "UNSATISFIABLE" -> "UNSATISFIABLE"
      [] r = "UNKNOWN" -> "UNKNOWN"
      [] r = "TIMEOUT" -> "UNKNOWN"
      [] OTHER -> "UNKNOWN"

exit_code(r) ==
    CASE r = "SATISFIABLE" -> 10
      [] r = "UNSATISFIABLE" -> 20
      [] r \in {"UNKNOWN", "TIMEOUT"} -> 0
      [] OTHER -> 1

\* Variant: every value but FALSE is printed as 1.
model_bit_unless_false(a, var) == IF a[var] = VAR_FALSE THEN 0 ELSE 1

\* print_class_model_line: the bit printed for variable var.
model_bit(a, var) == IF a[var] = VAR_TRUE THEN 1 ELSE 0

\* print_class_model_line: the lines `<var> = <bit>' of the for loop from var on.
RECURSIVE print_class_model_line(_, _, _)
print_class_model_line(f, a, var) ==
    IF var > f.num_variables THEN <<>>
    ELSE <<[kind |-> "model", variable |-> var, bit |-> model_bit(a, var)]>>
         \o print_class_model_line(f, a, var + 1)

\* main() run by the command line: the parser has delivered the formula and
\* the configuration is the default one completed by the arguments.
MainInit ==
    /\ Init
    /\ config \in CliConfigs

\* main() after solver_solve has returned: the line `s <status>', the model
\* on SATISFIABLE, and the exit code.  The statistics and the table printed
\* on request (--stats, --assignment) are left out.
Report ==
    /\ pc = "done"
    /\ output' = [lines |-> <<[kind |-> "s", status |-> status_str(result)]>>
                           \o IF result = "SATISFIABLE"
                              THEN print_class_model_line(formula, assignment, 1)
                              ELSE <<>>,
                  exit_code |-> exit_code(result)]
    /\ pc' = "exited"
    /\ UNCHANGED <<formula, variable_used, parser, config, assignment, stack,
                   decision_level, stats, conflicts_since_restart, iterations,
                   progress_made, result, ret_site>>

MainNext ==
    \/ Next
    \/ Report

MainSpec == MainInit /\ [][MainNext]_vars

(***************************************************************************)
(* Vocabulary of the properties.  These definitions state what a formula   *)
(* means; they do not use the solver's own evaluation functions.           *)
(***************************************************************************)
\* Literal lit is true under the (partial) assignment a.
Holds(lit, a) ==
    IF lit > 0 THEN a[lit] = VAR_TRUE ELSE a[-lit] = VAR_FALSE

\* Every clause of f has a true literal under a.
Models(a, f) ==
    \A i \in 1..Len(f.clauses) : \E j \in 1..Len(f.clauses[i]) : Holds(f.clauses[i][j], a)

\* The completion of a that maps the UNASSIGNED variables to FALSE.
Completion(a) ==
    [v \in DOMAIN a |-> IF a[v] = VAR_UNASSIGNED THEN VAR_FALSE ELSE a[v]]

TotalAssignments(f) == [1..f.num_variables -> {VAR_TRUE, VAR_FALSE}]

Satisfiable(f) == \E a \in TotalAssignments(f) : Models(a, f)

Done == pc = "done"

\* The run ended by itself: the wall-clock limit did not cut it short.
Finished == Done /\ ret_site # "clock"

\* The configuration main() builds when no -d option is given (max_decisions
\* is 0 until solver_solve replaces it by the default cap).
DefaultLimits ==
    \E strategy \in Strategies, cap \in {0, DEFAULT_MAX_DECISIONS} :
        config = CliConfig(strategy, cap)

DecisionPositions(stk) == {i \in 1..Len(stk) : stk[i].is_decision}

\* The position of the most recent decision entry of stk (0: none).
LastDecision(stk) ==
    IF DecisionPositions(stk) = {} THEN 0
    ELSE CHOOSE i \in DecisionPositions(stk) : \A j \in DecisionPositions(stk) : j <= i

Negation(value) == IF value = VAR_TRUE THEN VAR_FALSE ELSE VAR_TRUE

(***************************************************************************)
(* C1  Soundness: when solver_solve returns SATISFIABLE, every clause has  *)
(* a satisfied literal under the final assignment vector, and also under   *)
(* its completion that maps the UNASSIGNED variables to FALSE.             *)
(***************************************************************************)
C1_Soundness ==
    result = "SATISFIABLE" =>
        /\ Models(assignment, formula)
        /\ Models(Completion(assignment), formula)

\* SATISFIABLE returned from the loop after decisions and a backtrack, with a
\* variable left UNASSIGNED.
C1_Witness ==
    /\ result = "SATISFIABLE"
    /\ ret_site = "loop_satisfied"
    /\ \E v \in DOMAIN assignment : assignment[v] = VAR_UNASSIGNED
    /\ \E i \in 1..Len(stack) : stack[i].is_decision /\ stack[i].value = VAR_FALSE

(***************************************************************************)
(* C2  Refutation soundness: when solver_solve (started with every         *)
(* variable UNASSIGNED) returns UNSATISFIABLE, no total assignment of the  *)
(* N variables satisfies all clauses.                                      *)
(***************************************************************************)
C2_RefutationSoundness ==
    result = "UNSATISFIABLE" => ~Satisfiable(formula)

\* UNSATISFIABLE returned by the driver because backtrack failed.
C2_Witness ==
    /\ result = "UNSATISFIABLE"
    /\ ret_site = "backtrack_failed"
    /\ Len(stack) > 0

(***************************************************************************)
(* C3  On `p cnf 3 4; 1 2; 1 -2; -1 2; -1 -2' the solver with default      *)
(* limits returns UNSATISFIABLE (exit code 20) for the first-unassigned    *)
(* and the Jeroslow-Wang strategy.                                         *)
(***************************************************************************)
C3_Scenario4Unsat ==
    (/\ Finished
     /\ formula = Scenario4
     /\ DefaultLimits
     /\ config.decision_strategy \in {DECISION_FIRST_UNASSIGNED, DECISION_JEROSLOW_WANG})
    => /\ result = "UNSATISFIABLE"
       /\ status_str(result) = "UNSATISFIABLE"
       /\ exit_code(result) = 20

(***************************************************************************)
(* C4  On the pigeonhole instance with 3 pigeons and 2 holes the solver    *)
(* with default limits ends with UNSATISFIABLE (exit code 20), not with    *)
(* UNKNOWN or TIMEOUT.                                                     *)
(***************************************************************************)
C4_PigeonholeUnsat ==
    (Finished /\ formula = Pigeonhole32 /\ DefaultLimits)
    => result = "UNSATISFIABLE" /\ exit_code(result) = 20

(***************************************************************************)
(* C5  On `p cnf 1 1; 1' and on `p cnf 3 3; 1 2; -1 3; -2 -3' the solver   *)
(* (command-line configuration, default limits) returns SATISFIABLE, exit  *)
(* code 10; the model printed for the first is `1 = 1', and the assignment *)
(* returned for the second satisfies its three clauses.                    *)
(***************************************************************************)
C5_SatScenarios ==
    (Finished /\ DefaultLimits) =>
        /\ formula = Scenario1 =>
              /\ result = "SATISFIABLE"
              /\ exit_code(result) = 10
              /\ model_bit(assignment, 1) = 1
        /\ formula = Scenario3 =>
              /\ result = "SATISFIABLE"
              /\ exit_code(result) = 10
              /\ Models(assignment, formula)

\* Scenario 3 solved after a decision and two propagations.
C5_Witness ==
    /\ Finished
    /\ DefaultLimits
    /\ formula = Scenario3
    /\ result = "SATISFIABLE"
    /\ stats.decisions = 1
    /\ Len(stack) = 3

(***************************************************************************)
(* C6  Exhaustion of a decision: when backtrack runs while the most recent *)
(* decision entry is one that backtrack has already flipped (its value is  *)
(* FALSE: the branch step only pushes TRUE), backtrack does not flip that  *)
(* variable back to its first polarity; it pops past the entry and, when   *)
(* an earlier decision exists, flips that one, which becomes the top.      *)
(***************************************************************************)
C6_ExhaustedDecisionIsPopped ==
    [][(/\ pc = "backtrack"
        /\ LastDecision(stack) > 0
        /\ stack[LastDecision(stack)].value = VAR_FALSE)
       => LET last == LastDecision(stack)
              earlier == LastDecision(SubSeq(stack, 1, last - 1))
          IN /\ ~(/\ Len(stack') >= last
                  /\ stack'[last].variable = stack[last].variable
                  /\ stack'[last].value = VAR_TRUE)
             /\ earlier > 0 =>
                   /\ Len(stack') = earlier
                   /\ stack'[earlier].variable = stack[earlier].variable
                   /\ stack'[earlier].value = Negation(stack[earlier].value)]_vars

(***************************************************************************)
(* C7  Every entry on the stack agrees with the assignment vector:         *)
(* assignment[e.variable] = e.value.                                       *)
(***************************************************************************)
C7_StackAgreesWithAssignment ==
    \A i \in 1..Len(stack) : assignment[stack[i].variable] = stack[i].value

\* A stack holding a flipped decision below a propagation, after a backtrack.
C7_Witness ==
    /\ Len(stack) >= 2
    /\ \E i \in 1..(Len(stack) - 1) : stack[i].is_decision /\ stack[i].value = VAR_FALSE
    /\ ~stack[Len(stack)].is_decision

(***************************************************************************)
(* C8  Each variable that is not UNASSIGNED has exactly one entry on the   *)
(* stack, no two entries share a variable, and the stack never holds more  *)
(* than N entries.                                                         *)
(***************************************************************************)
C8_OneEntryPerAssignedVariable ==
    /\ \A v \in DOMAIN assignment :
          assignment[v] # VAR_UNASSIGNED =>
              Cardinality({i \in 1..Len(stack) : stack[i].variable = v}) = 1
    /\ \A i, j \in 1..Len(stack) : stack[i].variable = stack[j].variable => i = j
    /\ Len(stack) <= formula.num_variables

\* After a backtrack that removed propagations: the stack holds only the
\* flipped decision while the solve has propagated before.
C8_Witness ==
    /\ pc = "loop"
    /\ Len(stack) = 1
    /\ stack[1].is_decision
    /\ stack[1].value = VAR_FALSE
    /\ stats.propagations > 0
    /\ formula.num_variables > 1

(***************************************************************************)
(* C9  The stack's global decision_level equals the number of entries on   *)
(* the stack with is_decision = true, also after backtracks.               *)
(***************************************************************************)
C9_LevelCountsDecisions ==
    decision_level = Cardinality(DecisionPositions(stack))

(***************************************************************************)
(* C10  After every successful backtrack the top of the stack is a         *)
(* decision entry for the variable of the previously most recent decision, *)
(* with the negated value; the assignment of that variable is the negated  *)
(* value; no entry lies above it.                                          *)
(***************************************************************************)
C10_BacktrackFlipsLastDecision ==
    [][(pc = "backtrack" /\ pc' = "loop")
       => LET d == LastDecision(stack)
          IN /\ d > 0
             /\ Len(stack') = d
             /\ stack'[d].is_decision
             /\ stack'[d].variable = stack[d].variable
             /\ stack'[d].value = Negation(stack[d].value)
             /\ assignment'[stack[d].variable] = Negation(stack[d].value)]_vars

\* The state a backtrack leaves when it removed entries above a decision
\* that was not the first entry.
C10_Witness ==
    /\ pc = "loop"
    /\ iterations > 0
    /\ Len(stack) >= 2
    /\ stack[Len(stack)].is_decision
    /\ stack[Len(stack)].value = VAR_FALSE
    /\ decision_level > Cardinality(DecisionPositions(stack))

\* Clause c has no satisfied literal and exactly one unassigned literal under a.
IsUnit(c, a) ==
    /\ ~\E j \in 1..Len(c) : Holds(c[j], a)
    /\ Cardinality({j \in 1..Len(c) : a[literal_variable(c[j])] = VAR_UNASSIGNED}) = 1

NoUnitClause(f, a) == \A i \in 1..Len(f.clauses) : ~IsUnit(f.clauses[i], a)

(***************************************************************************)
(* C11  Whenever unit_propagation returns, no clause of the formula is     *)
(* unit under the current assignment, for every formula and every partial  *)
(* assignment it starts from: both when it is called directly and when the *)
(* driver has called it (the driver is then at its pure-literal step).     *)
(***************************************************************************)
C11_NoUnitClauseAfterPropagation ==
    (\/ pc = "unit_returned"
     \/ pc = "pure" /\ config.enable_unit_propagation)
    => NoUnitClause(formula, assignment)

\* unit_propagation returned after a chain of three propagations that leaves
\* the formula satisfied.
C11_Witness ==
    /\ pc = "unit_returned"
    /\ formula = ReverseChain
    /\ Len(stack) = 3
    /\ stats.propagations = 3
    /\ result = "SATISFIABLE"

\* Every literal of clause c is assigned and false under a.
InConflict(c, a) ==
    \A j \in 1..Len(c) : a[literal_variable(c[j])] # VAR_UNASSIGNED /\ ~Holds(c[j], a)

SomeConflict(f, a) == \E i \in 1..Len(f.clauses) : InConflict(f.clauses[i], a)

\* The assignment pure_literal_elimination sees when its loop reaches
\* variable v, on a call that turns assignment before into after: the
\* variables below v have their final values.
WhenExamined(before, after, v) ==
    [u \in DOMAIN before |-> IF u < v THEN after[u] ELSE before[u]]

(***************************************************************************)
(* C12  pure_literal_elimination never creates a conflict: if no clause is *)
(* in conflict when it is called (directly, or by the driver), none is     *)
(* when it returns; and every variable it assigns makes true each of its   *)
(* literals in the clauses that were live (not satisfied) when the         *)
(* variable was examined.  Nothing else changes in the assignment.         *)
(***************************************************************************)
C12_PureLiteralsCreateNoConflict ==
    [][(\/ pc = "solve" /\ pc' = "pure_returned"
        \/ pc = "pure" /\ config.enable_pure_literal)
       => /\ ~SomeConflict(formula, assignment) => ~SomeConflict(formula, assignment')
          /\ \A v \in DOMAIN assignment :
                IF assignment[v] # VAR_UNASSIGNED
                THEN assignment'[v] = assignment[v]
                ELSE assignment'[v] # VAR_UNASSIGNED =>
                       \A i \in 1..Len(formula.clauses) :
                           LET c == formula.clauses[i]
                               seen == WhenExamined(assignment, assignment', v)
                           IN (~\E j \in 1..Len(c) : Holds(c[j], seen))
                              => \A j \in 1..Len(c) :
                                    literal_variable(c[j]) = v => Holds(c[j], assignment')]_vars

\* A direct call on a partly filled assignment that assigned a pure literal
\* and left the formula without conflict and not yet satisfied.
C12_Witness ==
    /\ pc = "pure_returned"
    /\ result = "true"
    /\ Len(stack) >= 1
    /\ \E v \in DOMAIN assignment :
          /\ assignment[v] # VAR_UNASSIGNED
          /\ \A i \in 1..Len(stack) : stack[i].variable # v
    /\ ~SomeConflict(formula, assignment)
    /\ ~Models(assignment, formula)

\* Clause c contains a variable in both polarities.
BothPolarities(c) ==
    \E i, j \in 1..Len(c) : c[i] = -c[j]

\* The integers of a clause line up to its final 0.
LiteralsOf(tokens) ==
    SubSeq(tokens, 1, Len(tokens) - 1)

\* Line l is a well-formed clause line for a parser with max variables: it
\* ends with its only 0 and its literals are in range.
WellFormedClauseLine(l, max) ==
    /\ l.kind = "clause"
    /\ Len(l.tokens) >= 1
    /\ l.tokens[Len(l.tokens)] = 0
    /\ \A i \in 1..(Len(l.tokens) - 1) :
          l.tokens[i] # 0 /\ l.tokens[i] <= max /\ -l.tokens[i] <= max

(***************************************************************************)
(* C13  No clause stored in a formula produced by the parser contains both *)
(* polarities of a variable.  A well-formed clause line that does (such as *)
(* `2 -2 3 0') is dropped: reading it leaves the formula, variable_used    *)
(* and the parser's counters exactly as they were, and does not end the    *)
(* parse, so what follows (the rest of the parse and the solve) is what    *)
(* it would be had the line been absent.                                   *)
(***************************************************************************)
C13_TautologiesAreDropped ==
    /\ [](\A i \in 1..Len(formula.clauses) : ~BothPolarities(formula.clauses[i]))
    /\ [][(/\ pc = "parse"
           /\ parser'.problem_line_found
           /\ parser.problem_line_found
           /\ WellFormedClauseLine(parser'.line, parser.max_variables)
           /\ BothPolarities(LiteralsOf(parser'.line.tokens)))
          => /\ pc' = "line_done"
             /\ result' = "NONE"
             /\ formula' = formula
             /\ variable_used' = variable_used
             /\ assignment' = assignment
             /\ parser' = [parser EXCEPT !.line = parser'.line]]_vars

\* The parser has just dropped a tautological line while a clause is stored.
C13_Witness ==
    /\ pc = "line_done"
    /\ parser.line.kind = "clause"
    /\ WellFormedClauseLine(parser.line, parser.max_variables)
    /\ BothPolarities(LiteralsOf(parser.line.tokens))
    /\ Len(formula.clauses) = 1
    /\ parser.parsed_clauses = 1

(***************************************************************************)
(* C14  Strategy equivalence: two runs on the same formula with different  *)
(* branching heuristics never end one in SATISFIABLE and the other in      *)
(* UNSATISFIABLE.  Every run, whatever its heuristic and whatever the      *)
(* random heuristic draws, that ends in SATISFIABLE or UNSATISFIABLE ends  *)
(* in the kind the formula alone determines, so no two runs can disagree.  *)
(***************************************************************************)
C14_StrategiesAgreeOnResultKind ==
    (Done /\ result \in {"SATISFIABLE", "UNSATISFIABLE"} /\ config.decision_strategy \in Strategies)
        => (result = "SATISFIABLE" <=> Satisfiable(formula))

\* A run of the random heuristic that decided variable 2 first, where the
\* first-unassigned heuristic decides variable 1, and reached a verdict.
C14_Witness ==
    /\ Done
    /\ result = "SATISFIABLE"
    /\ config.decision_strategy = DECISION_RANDOM
    /\ Len(stack) >= 1
    /\ stack[1].is_decision
    /\ stack[1].variable = 2
    /\ \E c \in DOMAIN formula.clauses : \E j \in DOMAIN formula.clauses[c] :
          literal_variable(formula.clauses[c][j]) = 1

\* solver_solve is being entered, or has reached the first test of its loop.
EnteringSolve == pc = "solve" \/ (pc = "loop" /\ iterations = 0)

(***************************************************************************)
(* C15  Idempotence: when solver_solve is called on a formula whose        *)
(* assignment vector already makes a literal of every clause true, it      *)
(* returns SATISFIABLE at once: every step of the call leaves the          *)
(* assignment, the (empty) stack, the level and the counters as they are,  *)
(* preprocessing leads to a return or to the loop, and the first test of   *)
(* the loop returns SATISFIABLE unless the clock has run out.              *)
(***************************************************************************)
C15_SatisfiedInputReturnsAtOnce ==
    [][(/\ EnteringSolve
        /\ Models(assignment, formula)
        /\ stack = <<>>
        /\ pc' \notin DirectCallLabels)
       => /\ assignment' = assignment
          /\ stack' = <<>>
          /\ decision_level' = decision_level
          /\ stats' = stats
          /\ pc' \in {"loop", "done"}
          /\ pc = "loop" => pc' = "done"
          /\ pc' = "loop" => iterations' = 0
          /\ (pc' = "done" /\ ret_site' # "clock") => result' = "SATISFIABLE"]_vars

\* SATISFIABLE returned by the first test of the loop on a pre-populated
\* assignment that leaves a variable UNASSIGNED, after preprocessing with
\* pure literals enabled.
C15_Witness ==
    /\ Done
    /\ result = "SATISFIABLE"
    /\ ret_site = "loop_satisfied"
    /\ iterations = 1
    /\ stack = <<>>
    /\ config.enable_preprocessing
    /\ config.enable_pure_literal
    /\ Len(formula.clauses) >= 2
    /\ \E v \in DOMAIN assignment : assignment[v] = VAR_UNASSIGNED
    /\ \E v \in DOMAIN assignment : assignment[v] = VAR_FALSE

\* How far a stage of solver_solve is from the end of its iteration: every
\* stage hands over to a later stage of the same iteration, to the top of
\* the loop, or to the caller.
StageRank ==
    CASE pc = "solve" -> 7
      [] pc = "propagate" -> 6
      [] pc = "pure" -> 5
      [] pc = "branch" -> 4
      [] pc = "restart" -> 3
      [] pc = "backtrack" -> 2
      [] pc = "loop" -> 1
      [] OTHER -> 0

\* A quantity bounded below that every step of solver_solve decreases.
Measure == (max_iterations - iterations) * 8 + StageRank

(***************************************************************************)
(* C16  The driver always terminates.  The outer loop of dpll_algorithm    *)
(* performs at most 1000 iterations; until solver_solve has returned it is *)
(* at a stage that has a next step, and each step decreases a measure      *)
(* that cannot fall below 0, so the call returns; what it returns          *)
(* is SATISFIABLE, UNSATISFIABLE, UNKNOWN or TIMEOUT; and when the loop    *)
(* condition fails at the iteration cap the result is TIMEOUT.             *)
(***************************************************************************)
C16_DriverTerminates ==
    /\ [](iterations <= max_iterations /\ Measure >= 0)
    /\ [](~Done => /\ pc \in {"solve", "loop", "backtrack", "propagate", "pure",
                              "branch", "restart"}
                   /\ choose_decision_variable(formula, assignment,
                                               config.decision_strategy) # {})
    /\ [](Done => result \in {"SATISFIABLE", "UNSATISFIABLE", "UNKNOWN", "TIMEOUT"})
    /\ [][Measure' < Measure]_vars
    /\ [][(pc = "loop" /\ iterations = max_iterations)
            => (pc' = "done" /\ result' = "TIMEOUT")]_vars

\* The loop condition has failed after 1000 iterations and TIMEOUT was
\* returned.
C16_Witness ==
    /\ Done
    /\ ret_site = "iteration_cap"
    /\ result = "TIMEOUT"
    /\ iterations = max_iterations

\* The decision cap in force: solver_solve replaces a configured 0 by 1000
\* before it enters the loop.
EffectiveCap ==
    IF config.max_decisions = 0 THEN DEFAULT_MAX_DECISIONS ELSE config.max_decisions

C18_NoProgressGuardNeverFires ==
    /\ ret_site # "no_progress"
    /\ pc = "restart" => progress_made

\* The first iteration made a decision, went through the guard and is back
\* at the top of the loop, with nothing but the decision on the stack.
C18_Witness ==
    /\ pc = "loop"
    /\ iterations = 1
    /\ stats.decisions = 1
    /\ stats.restarts = 0
    /\ progress_made
    /\ Len(stack) = 1
    /\ stack[1].is_decision

AtLevelZero(entry) == entry.decision_level = 0

\* The assignment that holds exactly what the entries of stk record.
RecordedBy(stk) ==
    [v \in DOMAIN assignment |->
        IF \E i \in 1..Len(stk) : stk[i].variable = v
        THEN stk[CHOOSE i \in 1..Len(stk) : stk[i].variable = v].value
        ELSE VAR_UNASSIGNED]

(***************************************************************************)
(* C19  Restart: when restarts are enabled and conflicts_since_restart >=  *)
(* restart_threshold at the restart check after a decision, the restart    *)
(* removes exactly the stack entries with decision level > 0, which are    *)
(* the decisions and everything pushed after the first decision, keeps the *)
(* level-0 entries in order, leaves the assignment equal to exactly the    *)
(* remaining entries, sets the global level to 0 and increments the        *)
(* restarts counter by one.                                                *)
(***************************************************************************)
C19_RestartKeepsLevelZero ==
    [][(/\ pc = "restart"
        /\ config.enable_restarts
        /\ conflicts_since_restart >= config.restart_threshold)
       => /\ stack' = SelectSeq(stack, AtLevelZero)
          /\ \A i \in 1..Len(stack) :
                stack[i].decision_level > 0
                    <=> \E j \in 1..i : stack[j].is_decision
          /\ assignment' = RecordedBy(stack')
          /\ decision_level' = 0
          /\ stats'.restarts = stats.restarts + 1
          /\ stats'.decisions = stats.decisions]_vars

\* A restart has removed a decision and kept a propagated level-0 entry.
C19_Witness ==
    /\ pc = "loop"
    /\ stats.restarts = 1
    /\ stats.decisions = 1
    /\ iterations = 1
    /\ Len(stack) >= 1
    /\ \A i \in 1..Len(stack) : ~stack[i].is_decision /\ stack[i].decision_level = 0
    /\ assignment = RecordedBy(stack)
    /\ decision_level = 0

(***************************************************************************)
(* C20  Clause admission validates the variable range: after cnf_add_clause *)
(* every literal of every stored clause has its variable in 1..N (a clause *)
(* with a variable outside that range is rejected and not appended), and   *)
(* the variables of an admitted clause are marked in variable_used.        *)
(***************************************************************************)
C20_AdmissionValidatesRange ==
    pc = "added" =>
        /\ \A c \in 1..Len(formula.clauses) : \A j \in 1..Len(formula.clauses[c]) :
              literal_variable(formula.clauses[c][j]) \in 1..formula.num_variables
        /\ result = "true" =>
              \A j \in 1..Len(formula.clauses[Len(formula.clauses)]) :
                 variable_used[literal_variable(formula.clauses[Len(formula.clauses)][j])]

(***************************************************************************)
(* C21  Assigning an invalid variable is an error that does not corrupt    *)
(* state: assign_variable called with a var outside 1..N (0, greater than  *)
(* N, or negative) returns failure and leaves the assignment vector and    *)
(* the stack unchanged.  So a call that has returned success has pushed an *)
(* entry whose variable is in 1..N, and no call is stopped by a store      *)
(* outside the assignment vector.                                          *)
(***************************************************************************)
C21_InvalidVariableIsRejected ==
    (pc = "assigned" /\ result # "false")
        => /\ result = "true"
           /\ Len(stack) >= 1
           /\ stack[Len(stack)].variable \in 1..formula.num_variables

\* The literals of clause c as a set.
LiteralSet(c) == {c[j] : j \in 1..Len(c)}

\* How many clauses of f have the literal set S.
Occurrences(f, S) ==
    Cardinality({i \in 1..Len(f.clauses) : LiteralSet(f.clauses[i]) = S})

\* f and g have the same clauses as multisets of literal sets.
SameClauseMultiset(f, g) ==
    \A S \in {LiteralSet(f.clauses[i]) : i \in 1..Len(f.clauses)}
           \cup {LiteralSet(g.clauses[i]) : i \in 1..Len(g.clauses)} :
        Occurrences(f, S) = Occurrences(g, S)

(***************************************************************************)
(* C22  Round trip: writing a formula built by the parser with             *)
(* parser_write_cnf_stream and parsing the output again, in strict mode or *)
(* not, succeeds and yields a formula with the same N and the same         *)
(* clauses, as a multiset of literal sets.                                 *)
(***************************************************************************)
C22_WriteThenParseRoundTrip ==
    pc = "reparsed" =>
        /\ result = "PARSE_OK"
        /\ parser.formula.num_variables = formula.num_variables
        /\ SameClauseMultiset(parser.formula, formula)

\* A formula in which a clause occurs twice has been written and read back
\* in strict mode.
C22_Witness ==
    /\ pc = "reparsed"
    /\ result = "PARSE_OK"
    /\ parser.strict_mode
    /\ Len(formula.clauses) = 2
    /\ formula.clauses[1] = formula.clauses[2]
    /\ Len(parser.formula.clauses) = 2

(***************************************************************************)
(* C23  Result-to-interface mapping: the exit code of the process is 10    *)
(* exactly when the solver result is SATISFIABLE, 20 exactly when it is    *)
(* UNSATISFIABLE, and 0 when it is UNKNOWN or TIMEOUT; the first line      *)
(* printed is `s' with the result, TIMEOUT being printed as UNKNOWN; on    *)
(* SATISFIABLE it is followed by one line `<v> = <bit>' per variable 1..N  *)
(* in ascending order, the bit being 1 for TRUE and 0 for FALSE and for    *)
(* UNASSIGNED, and on any other result by nothing.                         *)
(***************************************************************************)
C23_ResultToInterface ==
    pc = "exited" =>
        /\ output.exit_code = 10 <=> result = "SATISFIABLE"
        /\ output.exit_code = 20 <=> result = "UNSATISFIABLE"
        /\ result \in {"UNKNOWN", "TIMEOUT"} => output.exit_code = 0
        /\ output.lines[1] =
              [kind |-> "s",
               status |-> IF result = "TIMEOUT" THEN "UNKNOWN" ELSE result]
        /\ IF result = "SATISFIABLE"
           THEN /\ Len(output.lines) = formula.num_variables + 1
                /\ \A v \in 1..formula.num_variables :
                      output.lines[v + 1] =
                          [kind |-> "model", variable |-> v,
                           bit |-> IF assignment[v] = VAR_TRUE THEN 1 ELSE 0]
           ELSE Len(output.lines) = 1

\* A model with a variable left UNASSIGNED has been printed and the process
\* has exited with 10.
C23_Witness ==
    /\ pc = "exited"
    /\ result = "SATISFIABLE"
    /\ output.exit_code = 10
    /\ \E v \in DOMAIN assignment :
          /\ assignment[v] = VAR_UNASSIGNED
          /\ output.lines[v + 1].bit = 0
    /\ \E v \in DOMAIN assignment : assignment[v] = VAR_TRUE

\* The solver record of the state a step leads to.
Primed ==
    [assignment |-> assignment', stack |-> stack', decision_level |-> decision_level',
     propagations |-> stats'.propagations, conflicts |-> stats'.conflicts,
     conflicts_since_restart |-> conflicts_since_restart']

\* One more round of pure-literal elimination and unit propagation on s
\* pushes nothing.
RoundPushesNothing(f, s) ==
    Len(unit_propagation(f, pure_literal_elimination(f, s).s).stack) = Len(s.stack)

(***************************************************************************)
(* C24  Preprocessing alternates pure-literal elimination and unit         *)
(* propagation until a round leaves the stack size unchanged: when it is   *)
(* over, a clause is in conflict or one more round would push nothing.  It *)
(* keeps the entries that were there and pushes only non-decision entries  *)
(* of level 0.  solver_solve then returns UNSATISFIABLE if some clause is  *)
(* in conflict (as on `p cnf 1 2; 1 0; -1 0'), and if every clause is      *)
(* satisfied it returns SATISFIABLE, at once for a formula without clauses *)
(* and otherwise at the first test of the loop unless the clock has run    *)
(* out.                                                                    *)
(***************************************************************************)
C24_PreprocessingToFixpoint ==
    /\ [][(/\ pc = "solve"
           /\ config.enable_preprocessing
           /\ pc' \notin DirectCallLabels)
          => /\ has_conflict(formula, assignment') \/ RoundPushesNothing(formula, Primed)
             /\ SubSeq(stack', 1, Len(stack)) = stack
             /\ \A i \in (Len(stack) + 1)..Len(stack') :
                   ~stack'[i].is_decision /\ stack'[i].decision_level = 0
             /\ decision_level' = 0
             /\ stats'.decisions = 0
             /\ SomeConflict(formula, assignment')
                   => (pc' = "done" /\ result' = "UNSATISFIABLE")
             /\ Models(assignment', formula)
                   => \/ pc' = "done" /\ result' = "SATISFIABLE"
                      \/ pc' = "loop" /\ Len(formula.clauses) > 0]_vars
    /\ [][(/\ pc = "loop"
           /\ iterations = 0
           /\ Models(assignment, formula)
           /\ ret_site' # "clock")
          => (pc' = "done" /\ result' = "SATISFIABLE")]_vars

\* Preprocessing has assigned the three variables of the chain `-2 3; -1 2; 1'
\* by one pure literal and two propagations, and every clause is satisfied.
C24_Witness ==
    /\ pc = "loop"
    /\ iterations = 0
    /\ config.enable_preprocessing
    /\ formula = ReverseChain
    /\ Len(stack) = 3
    /\ stats.propagations = 2
    /\ \A i \in 1..Len(stack) : ~stack[i].is_decision /\ stack[i].decision_level = 0
    /\ Models(assignment, formula)

Unassigned(lit, a) == a[literal_variable(lit)] = VAR_UNASSIGNED

Falsified(lit, a) == ~Unassigned(lit, a) /\ ~Holds(lit, a)

\* The positions of clause c whose literal is unassigned under a.
UnassignedPositions(c, a) == {j \in 1..Len(c) : Unassigned(c[j], a)}

(***************************************************************************)
(* C25  The clause evaluation functions match their definitions for every  *)
(* clause and assignment: satisfied is true iff some literal is satisfied; *)
(* conflicting is true iff every literal is falsified; unit returns the    *)
(* literal l iff l is the only unassigned literal and no literal is        *)
(* satisfied, and none otherwise; an empty clause is conflicting and       *)
(* neither satisfied nor unit; at most one of the three holds.             *)
(***************************************************************************)
C25_ClauseEvaluation ==
    pc = "evaluated" =>
        LET c == formula.clauses[1]
            a == assignment
            only_unassigned == Cardinality(UnassignedPositions(c, a)) = 1
                               /\ \A j \in 1..Len(c) : ~Holds(c[j], a)
        IN /\ result.satisfied <=> \E j \in 1..Len(c) : Holds(c[j], a)
           /\ result.conflicting <=> \A j \in 1..Len(c) : Falsified(c[j], a)
           /\ result.unit <=> only_unassigned
           /\ only_unassigned
                 => \E j \in UnassignedPositions(c, a) : result.unit_literal = c[j]
           /\ ~only_unassigned => result.unit_literal = 0
           /\ Len(c) = 0
                 => (result.conflicting /\ ~result.satisfied /\ ~result.unit)
           /\ ~(result.satisfied /\ result.conflicting)
           /\ ~(result.satisfied /\ result.unit)
           /\ ~(result.conflicting /\ result.unit)

\* clause_is_unit has returned the second literal of a clause whose first
\* literal is falsified.
C25_Witness ==
    /\ pc = "evaluated"
    /\ Len(formula.clauses[1]) = 2
    /\ Falsified(formula.clauses[1][1], assignment)
    /\ result.unit
    /\ result.unit_literal = formula.clauses[1][2]
    /\ ~result.satisfied
    /\ ~result.conflicting

(***************************************************************************)
(* C26  Backtrack failure: when backtrack is called on a stack that is     *)
(* empty or holds no decision entry, it returns failure and leaves the     *)
(* stack and the assignment vector unchanged, and the driver returns       *)
(* UNSATISFIABLE.                                                          *)
(***************************************************************************)
C26_BacktrackFailure ==
    [][(pc = "backtrack" /\ DecisionPositions(stack) = {})
       => /\ stack' = stack
          /\ assignment' = assignment
          /\ decision_level' = decision_level
          /\ pc' = "done"
          /\ result' = "UNSATISFIABLE"
          /\ ret_site' = "backtrack_failed"]_vars

\* The driver has returned UNSATISFIABLE from a backtrack on an empty stack:
\* the conflict was in the assignment it was given.
C26_Witness ==
    /\ Done
    /\ result = "UNSATISFIABLE"
    /\ ret_site = "backtrack_failed"
    /\ stack = <<>>
    /\ SomeConflict(formula, assignment)

\* The variables of the entries of stk at the positions from..to.
EntryVariables(stk, from, to) == {stk[i].variable : i \in from..to}

(***************************************************************************)
(* C27  Frame of backtrack: a successful backtrack leaves every stack      *)
(* entry below the most recent decision, and the assignment of those       *)
(* entries' variables, unchanged; the variables it sets to UNASSIGNED are  *)
(* exactly those of the entries that were above the decision; and no other *)
(* variable's assignment changes except the flipped decision variable.     *)
(***************************************************************************)
C27_BacktrackFrame ==
    [][(pc = "backtrack" /\ pc' = "loop")
       => LET d == LastDecision(stack)
              below == EntryVariables(stack, 1, d - 1)
              above == EntryVariables(stack, d + 1, Len(stack))
          IN /\ d > 0
             /\ SubSeq(stack', 1, d - 1) = SubSeq(stack, 1, d - 1)
             /\ \A v \in below : assignment'[v] = assignment[v]
             /\ {v \in DOMAIN assignment :
                    assignment'[v] = VAR_UNASSIGNED /\ assignment[v] # VAR_UNASSIGNED}
                = above
             /\ \A v \in DOMAIN assignment :
                   assignment'[v] # assignment[v]
                       => (v \in above \/ v = stack[d].variable)]_vars

\* A backtrack has flipped a decision that had an entry below it, which is
\* still there, and has left a variable UNASSIGNED.
C27_Witness ==
    /\ pc = "loop"
    /\ iterations > 0
    /\ Len(stack) >= 2
    /\ assignment[stack[1].variable] = stack[1].value
    /\ stack[Len(stack)].is_decision
    /\ stack[Len(stack)].value = VAR_FALSE
    /\ decision_level > Cardinality(DecisionPositions(stack))
    /\ \E v \in DOMAIN assignment : assignment[v] = VAR_UNASSIGNED

\* The level stored in the entry before position i of stk (0 before the first).
LevelBefore(stk, i) == IF i = 1 THEN 0 ELSE stk[i - 1].decision_level

(***************************************************************************)
(* C28  Along the stack, in every state of a solve, the decision_level     *)
(* stored in the entries is non-decreasing with position, is the level of  *)
(* the previous entry at a propagation entry, and is exactly one greater   *)
(* than the level of the previous entry (exactly 1 for a first entry) at   *)
(* each decision entry, those pushed again by backtrack included.          *)
(***************************************************************************)
C28_EntryLevelsStepByOne ==
    \A i \in 1..Len(stack) :
        stack[i].decision_level =
            IF stack[i].is_decision
            THEN LevelBefore(stack, i) + 1
            ELSE LevelBefore(stack, i)

\* The entries of stk whose stored level is at most level, in order.
RECURSIVE EntriesUpTo(_, _)
EntriesUpTo(stk, level) ==
    IF stk = <<>> THEN <<>>
    ELSE IF Head(stk).decision_level <= level
    THEN <<Head(stk)>> \o EntriesUpTo(Tail(stk), level)
    ELSE EntriesUpTo(Tail(stk), level)

(***************************************************************************)
(* C29  The stack primitives keep the level consistent: after any sequence *)
(* of assignment_stack_push, assignment_stack_pop and                      *)
(* assignment_stack_backtrack_to_level(L), L not above the current level,  *)
(* the global decision_level equals the number of decision entries on the  *)
(* stack.  A push appends one entry that stores the new level, which is    *)
(* one higher for a decision and the same for a propagation; a pop removes *)
(* the top and lowers the level by one iff the popped entry was a          *)
(* decision; backtrack_to_level(L) removes exactly the entries whose level *)
(* is greater than L and leaves the level at L.                            *)
(***************************************************************************)
C29_StackPrimitivesKeepLevel ==
    /\ [](decision_level = Cardinality(DecisionPositions(stack)))
    /\ [][ret_site' = "assignment_stack_push"
            => /\ Len(stack') = Len(stack) + 1
               /\ SubSeq(stack', 1, Len(stack)) = stack
               /\ decision_level' = IF stack'[Len(stack')].is_decision
                                    THEN decision_level + 1 ELSE decision_level
               /\ stack'[Len(stack')].decision_level = decision_level']_vars
    /\ [][(ret_site' = "assignment_stack_pop" /\ stack # <<>>)
            => /\ stack' = SubSeq(stack, 1, Len(stack) - 1)
               /\ decision_level' = IF stack[Len(stack)].is_decision
                                    THEN decision_level - 1 ELSE decision_level]_vars
    /\ [][(ret_site' = "assignment_stack_pop" /\ stack = <<>>)
            => (stack' = stack /\ decision_level' = decision_level)]_vars
    /\ [][ret_site' = "assignment_stack_backtrack_to_level"
            => /\ decision_level' <= decision_level
               /\ stack' = EntriesUpTo(stack, decision_level')]_vars

\* assignment_stack_backtrack_to_level(1) has returned on a stack that holds
\* a propagation of level 0 below the decision of level 1.
C29_Witness ==
    /\ ret_site = "assignment_stack_backtrack_to_level"
    /\ decision_level = 1
    /\ Len(stack) = 2
    /\ ~stack[1].is_decision
    /\ stack[1].decision_level = 0
    /\ stack[2].is_decision
    /\ stack[2].decision_level = 1

(***************************************************************************)
(* C30  At the branching step of the driver the configured heuristic       *)
(* returns 0 ("no variable") only when no variable of 1..N is UNASSIGNED,  *)
(* for each of the four strategies and in every state reachable at that    *)
(* step.                                                                   *)
(***************************************************************************)
C30_NoVariableOnlyWhenAllAssigned ==
    (/\ pc = "branch"
     /\ 0 \in choose_decision_variable(formula, assignment, config.decision_strategy))
        => \A var \in 1..formula.num_variables : assignment[var] # VAR_UNASSIGNED

\* The variables of f that a leaves unassigned.
UnassignedVariables(f, a) == {v \in 1..f.num_variables : a[v] = VAR_UNASSIGNED}

\* The non-satisfied clauses of f that contain the literal lit.
LiveClausesWith(f, a, lit) ==
    {i \in 1..Len(f.clauses) :
        /\ ~(\E j \in 1..Len(f.clauses[i]) : Holds(f.clauses[i][j], a))
        /\ \E j \in 1..Len(f.clauses[i]) : f.clauses[i][j] = lit}

Frequency(f, a, v) ==
    Cardinality(LiveClausesWith(f, a, v)) + Cardinality(LiveClausesWith(f, a, -v))

(***************************************************************************)
(* C31  For every formula and partial assignment with at least one         *)
(* unassigned variable, decision_most_frequent returns the unassigned      *)
(* variable that maximizes the number of non-satisfied clauses containing  *)
(* +v plus the number containing -v, the smallest index among the          *)
(* maximizers; decision_first_unassigned returns the smallest unassigned   *)
(* index.                                                                  *)
(***************************************************************************)
C31_HeuristicsPickTheStatedVariable ==
    (pc = "chosen" /\ UnassignedVariables(formula, assignment) # {})
        => /\ config.decision_strategy = DECISION_MOST_FREQUENT
                => /\ result \in UnassignedVariables(formula, assignment)
                   /\ \A v \in UnassignedVariables(formula, assignment) :
                         \/ Frequency(formula, assignment, v)
                                < Frequency(formula, assignment, result)
                         \/ /\ Frequency(formula, assignment, v)
                                  = Frequency(formula, assignment, result)
                            /\ result <= v
           /\ config.decision_strategy = DECISION_FIRST_UNASSIGNED
                => /\ result \in UnassignedVariables(formula, assignment)
                   /\ \A v \in UnassignedVariables(formula, assignment) : result <= v

\* Variable v occurs with exactly one polarity in the clauses of f that are
\* not satisfied under a; PureValue is the value that satisfies it.
IsPure(f, a, v) ==
    (LiveClausesWith(f, a, v) # {}) # (LiveClausesWith(f, a, -v) # {})

PureValue(f, a, v) == IF LiveClausesWith(f, a, v) # {} THEN VAR_TRUE ELSE VAR_FALSE

\* The entries pure_literal_elimination pushes, in the order of the loop, on
\* a call that turns assignment before into after.
RECURSIVE PureEntries(_, _, _, _)
PureEntries(before, after, level, v) ==
    IF v > Len(before) THEN <<>>
    ELSE IF before[v] = VAR_UNASSIGNED /\ after[v] # VAR_UNASSIGNED
    THEN <<[variable |-> v, value |-> after[v], decision_level |-> level,
            is_decision |-> FALSE]>> \o PureEntries(before, after, level, v + 1)
    ELSE PureEntries(before, after, level, v + 1)

(***************************************************************************)
(* C32  In one call, pure_literal_elimination assigns an unassigned        *)
(* variable v iff, when v is examined (in increasing index order), v       *)
(* occurs in the non-satisfied clauses with exactly one polarity; v gets   *)
(* the value that satisfies that polarity and is pushed as a non-decision  *)
(* entry, the decision level is unchanged, and the call returns true iff   *)
(* it assigned at least one variable.                                      *)
(***************************************************************************)
C32_PureLiteralRule ==
    [][(\/ pc = "solve" /\ pc' = "pure_returned"
        \/ pc = "pure" /\ config.enable_pure_literal)
       => /\ \A v \in DOMAIN assignment :
                LET seen == WhenExamined(assignment, assignment', v)
                IN IF assignment[v] # VAR_UNASSIGNED
                   THEN assignment'[v] = assignment[v]
                   ELSE IF IsPure(formula, seen, v)
                   THEN assignment'[v] = PureValue(formula, seen, v)
                   ELSE assignment'[v] = VAR_UNASSIGNED
          /\ stack' = stack \o PureEntries(assignment, assignment', decision_level, 1)
          /\ decision_level' = decision_level
          /\ pc' = "pure_returned"
                => (result' = "true") = (assignment' # assignment)
          /\ pc' # "pure_returned"
                => progress_made' = (progress_made \/ assignment' # assignment)]_vars

\* A direct call that assigned a pure literal and left unassigned a variable
\* that occurs with both polarities in the clauses still not satisfied.
C32_Witness ==
    /\ pc = "pure_returned"
    /\ result = "true"
    /\ Len(stack) >= 1
    /\ ~stack[Len(stack)].is_decision
    /\ \E v \in DOMAIN assignment :
          /\ assignment[v] = VAR_UNASSIGNED
          /\ LiveClausesWith(formula, assignment, v) # {}
          /\ LiveClausesWith(formula, assignment, -v) # {}

\* The entries of stk from position from on are for distinct variables that
\* are unassigned under a.
NewlyAssigned(stk, from, a) ==
    /\ \A i \in from..Len(stk) : a[stk[i].variable] = VAR_UNASSIGNED
    /\ \A i, j \in from..Len(stk) : i # j => stk[i].variable # stk[j].variable

(***************************************************************************)
(* C33  unit_propagation terminates for every formula and partial          *)
(* assignment.  Every pass that does not end the loop pushes at least one  *)
(* new entry, and every entry pushed is for a variable that was unassigned *)
(* before the pass; the number of passes is at most N + 1, and the number  *)
(* of entries the call pushes is at most the number of variables           *)
(* unassigned when it was entered.                                         *)
(***************************************************************************)
C33_UnitPropagationTerminates ==
    /\ <>(pc = "unit_returned")
    /\ [][(pc' = "unit_pass") => Len(stack') > Len(stack)]_vars
    /\ [][/\ Len(stack') >= Len(stack)
          /\ SubSeq(stack', 1, Len(stack)) = stack
          /\ NewlyAssigned(stack', Len(stack) + 1, assignment)
          /\ \A v \in DOMAIN assignment :
                assignment[v] # VAR_UNASSIGNED => assignment'[v] = assignment[v]]_vars
    /\ [](iterations <= formula.num_variables + 1 /\ iterations <= Len(stack) + 1)
    /\ [][(pc = "solve" /\ pc' = "unit_returned")
            => Len(stack') - Len(stack)
                 <= Cardinality(UnassignedVariables(formula, assignment))]_vars
    /\ [](Len(stack) + Cardinality({v \in DOMAIN assignment : assignment[v] # VAR_UNASSIGNED
                                       /\ \A i \in 1..Len(stack) : stack[i].variable # v})
            <= formula.num_variables)

\* The loop was left by its fourth pass, after three passes that propagated
\* one literal each.
C33_Witness ==
    /\ pc = "unit_returned"
    /\ formula = ReverseChain
    /\ iterations = 4
    /\ Len(stack) = 3

\* Position i of the stack after a step holds an entry that the step put
\* there.
PutByStep(i) == i > Len(stack) \/ stack[i] # stack'[i]

(***************************************************************************)
(* C34  Every decision entry pushed by the branching step of the driver    *)
(* has value TRUE; a decision entry with value FALSE comes onto the stack  *)
(* only by backtrack flipping an existing decision: it replaces the most   *)
(* recent decision, of the same variable and with value TRUE.              *)
(***************************************************************************)
C34_TrueIsTriedFirst ==
    /\ [][(pc = "branch" /\ stack' # stack)
            => /\ stack' = Append(stack, stack'[Len(stack')])
               /\ stack'[Len(stack')].is_decision
               /\ stack'[Len(stack')].value = VAR_TRUE]_vars
    /\ [][\A i \in 1..Len(stack') :
              (/\ PutByStep(i)
               /\ stack'[i].is_decision
               /\ stack'[i].value = VAR_FALSE)
                 => /\ pc = "backtrack"
                    /\ i = last_decision_idx(stack)
                    /\ stack[i].is_decision
                    /\ stack[i].variable = stack'[i].variable
                    /\ stack[i].value = VAR_TRUE]_vars

\* The branching step has pushed a decision with value TRUE above a decision
\* that backtrack had flipped to FALSE.
C34_Witness ==
    /\ pc = "restart"
    /\ Len(stack) >= 2
    /\ stack[Len(stack)].is_decision
    /\ stack[Len(stack)].value = VAR_TRUE
    /\ \E i \in 1..(Len(stack) - 1) :
          stack[i].is_decision /\ stack[i].value = VAR_FALSE

\* The number of decision entries on the stack stk.
DecisionCount(stk) == Cardinality(DecisionPositions(stk))

\* dpll_algorithm is running: solver_solve is past preprocessing and has not
\* returned.
InDpll == pc \in {"loop", "backtrack", "propagate", "pure", "branch", "restart"}

(***************************************************************************)
(* C35  With restarts disabled, the number of decision entries on the      *)
(* stack never decreases during dpll_algorithm (backtrack removes one      *)
(* decision and pushes one).  So once a decision has been pushed,          *)
(* backtrack never fails and the driver never returns UNSATISFIABLE:       *)
(* UNSATISFIABLE is only returned from a state whose stack holds no        *)
(* decision entry.                                                         *)
(***************************************************************************)
C35_DecisionsAreNeverGivenUp ==
    /\ [][(~config.enable_restarts /\ InDpll)
            => DecisionCount(stack') >= DecisionCount(stack)]_vars
    /\ [][(~config.enable_restarts /\ pc = "backtrack")
            => DecisionCount(stack') = DecisionCount(stack)]_vars
    /\ [][(~config.enable_restarts /\ InDpll /\ DecisionCount(stack) >= 1)
            => /\ pc = "backtrack" => pc' = "loop"
               /\ result' # "UNSATISFIABLE"]_vars
    /\ [](~config.enable_restarts
            => /\ stats.decisions >= 1 => (result # "UNSATISFIABLE"
                                           /\ DecisionCount(stack) >= 1)
               /\ result = "UNSATISFIABLE" => DecisionCount(stack) = 0)

\* An unsatisfiable formula on which a decision was made: backtrack kept
\* flipping it until the iteration cap, and UNSATISFIABLE was never returned.
C35_Witness ==
    /\ Done
    /\ ~config.enable_restarts
    /\ ~Satisfiable(formula)
    /\ DecisionCount(stack) >= 1
    /\ stats.decisions >= 1
    /\ result = "TIMEOUT"
    /\ ret_site = "iteration_cap"

\* The solver states that propagation alone (unit propagation, pure-literal
\* elimination, or both in the order of the driver) can reach from s.
AfterPropagations(f, s) ==
    {s,
     unit_propagation(f, s),
     pure_literal_elimination(f, s).s,
     pure_literal_elimination(f, unit_propagation(f, s)).s}

(***************************************************************************)
(* C36  Two consecutive successful backtracks with no decision pushed in   *)
(* between (only propagations may occur between them) restore the same     *)
(* decision variable with its original value on top of the same unchanged  *)
(* stack prefix: backtrack is an involution on the most recent decision.   *)
(***************************************************************************)
C36_BacktrackTwiceRestoresDecision ==
    [][(pc = "backtrack" /\ pc' = "loop")
        => \A m \in AfterPropagations(formula, Primed) :
              LET idx == last_decision_idx(stack)
                  again == backtrack(formula, m)
              IN /\ again.ok
                 /\ Len(again.s.stack) = idx
                 /\ SubSeq(again.s.stack, 1, idx - 1) = SubSeq(stack, 1, idx - 1)
                 /\ again.s.stack[idx].is_decision
                 /\ again.s.stack[idx].variable = stack[idx].variable
                 /\ again.s.stack[idx].value = stack[idx].value]_vars

\* With restarts disabled, a decision that is TRUE again above a prefix of
\* the stack, with a stored level that only two pushes by backtrack explain.
C36_Witness ==
    /\ pc = "loop"
    /\ ~config.enable_restarts
    /\ Len(stack) >= 2
    /\ stack[Len(stack)].is_decision
    /\ stack[Len(stack)].value = VAR_TRUE
    /\ stack[Len(stack)].decision_level = DecisionCount(stack) + 2
    /\ stats.propagations >= 1

\* No clause of f holds a variable in both polarities.
NoTautology(f) == \A i \in 1..Len(f.clauses) : ~BothPolarities(f.clauses[i])

C38_CapComesBeforeSatisfaction ==
    /\ [][(/\ pc = "branch"
           /\ stats'.decisions = stats.decisions + 1
           /\ stats'.decisions >= config.max_decisions)
          => /\ pc' = "done"
             /\ result' = "UNKNOWN"
             /\ ret_site' = "decision_cap"]_vars
    /\ []((Done /\ result = "SATISFIABLE") => stats.decisions < EffectiveCap)
    /\ []((Done /\ stats.decisions = EffectiveCap) => result = "UNKNOWN")

\* The decision that reached the cap satisfied every clause, and UNKNOWN was
\* returned.
C38_Witness ==
    /\ Done
    /\ config.max_decisions = SmallDecisionCap
    /\ stats.decisions = config.max_decisions
    /\ Len(stack) >= 1
    /\ stack[Len(stack)].is_decision
    /\ Models(assignment, formula)
    /\ \E i \in 1..Len(formula.clauses) :
          \A j \in 1..Len(formula.clauses[i]) :
              Holds(formula.clauses[i][j], assignment)
                  => literal_variable(formula.clauses[i][j]) = stack[Len(stack)].variable
    /\ result = "UNKNOWN"
    /\ ret_site = "decision_cap"

====
